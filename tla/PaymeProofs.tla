---------------------------- MODULE PaymeProofs ----------------------------
(***************************************************************************)
(* The safety of the protocols that repeat a call until it is answered:    *)
(* the webhooks of Payme and Click, the relay (HumoWatcher) and sign-up    *)
(* (SignUp), one part each.  This part is about Payme, for any number of   *)
(* orders, transactions and concurrent requests.                           *)
(*                                                                         *)
(* None of the invariants is inductive alone.  GrantedOnce needs to know   *)
(* that what a worker read under the row lock is still true when it        *)
(* commits (LockOwned); AccessIffPerformed and DeadOrderNotPerformed need  *)
(* to know that the order has no second live transaction (OneActive).      *)
(***************************************************************************)
EXTENDS MCRetries, FiniteSetTheorems, SequenceTheorems, WellFoundedInduction, TLAPS

InTx(w) == req[w].at \in {"perform", "cancel"}

\* A worker inside its transaction owns the row's lock, and the row is what
\* the worker read when it took the lock.
LockOwned ==
    \A w \in Workers : InTx(w) =>
        /\ req[w].id \in PaymeIds
        /\ rowLock[req[w].id] = w
        /\ req[w].seen = txn[req[w].id].state
        /\ req[w].seen # NoRow
        /\ req[w].pay = txn[req[w].id].payment

\* A lock is only held by a worker inside its transaction on that row.
LockHeld ==
    \A t \in PaymeIds : rowLock[t] # None =>
        /\ InTx(rowLock[t])
        /\ req[rowLock[t]].id = t

\* A worker inside CreateTransaction has named a transaction and an order.
CreateNamed ==
    \A w \in Workers : req[w].at \notin {"idle", "perform", "cancel"} =>
        /\ req[w].id \in PaymeIds
        /\ req[w].pay \in Payments

\* A row exists exactly when it names an order (the foreign key).
RowNamed == \A t \in PaymeIds : txn[t].state = NoRow <=> txn[t].payment = None

\* payme_transaction_one_active_per_payment.
OneActive ==
    \A t, u \in PaymeIds :
        Active(t) /\ Active(u) /\ txn[t].payment = txn[u].payment => t = u

RowsAgree == RowNamed /\ OneActive

IInv ==
    /\ TypeOK
    /\ LockOwned /\ LockHeld /\ CreateNamed
    /\ RowsAgree
    /\ GrantedOnce /\ AccessIffPerformed /\ DeadOrderNotPerformed /\ PaidHasPerform

-----------------------------------------------------------------------------
(* Types.                                                                  *)

TxnRow == [state : TxnState, payment : Payments \cup {None}]
Request == [at : Points, id : PaymeIds \cup {None}, pay : Payments \cup {None},
            seen : TxnState]

\* The constants lie in their sets.
LEMMA ConstantTypes ==
    /\ {Pending, Performed, -1, -2, NoRow} \subseteq TxnState
    /\ Idle \in Request
BY DEF TxnState, Pending, Performed, NoRow, Idle, Request, Points

\* Changing one field of one row or one request keeps it well typed.
LEMMA FieldUpdates ==
    /\ \A f \in [PaymeIds -> TxnRow], t \in PaymeIds, s \in TxnState :
          [f EXCEPT ![t].state = s] \in [PaymeIds -> TxnRow]
    /\ \A f \in [Workers -> Request], w \in Workers, a \in Points :
          [f EXCEPT ![w].at = a] \in [Workers -> Request]
BY DEF TxnRow, Request

\* Ending a request keeps the locks and the requests well typed.
LEMMA EndRequestType ==
    ASSUME TypeOK, NEW w \in Workers, EndRequest(w)
    PROVE  /\ rowLock' \in [PaymeIds -> Workers \cup {None}]
           /\ req' \in [Workers -> Request]
BY ConstantTypes DEF TypeOK, EndRequest, Request

\* Every step keeps every variable in its type.
LEMMA TypeStep ==
    ASSUME TypeOK, CreateNamed, LockOwned, RowNamed, [Next]_vars
    PROVE  TypeOK'
<1> USE NoneAssumption, MaxAbortsAssumption, ConstantTypes DEF TypeOK
<1>1. ASSUME NEW w \in Workers, NEW t \in PaymeIds, NEW p \in Payments,
             CreateTransaction(w, t, p)
      PROVE TypeOK'
  BY <1>1 DEF CreateTransaction, Points
<1>2. ASSUME NEW w \in Workers, ValidateAccountAmount(w) PROVE TypeOK'
  BY <1>2, ZenonT(60) DEF ValidateAccountAmount, Points, Request
<1>3. ASSUME NEW w \in Workers, CheckNoActive(w) PROVE TypeOK'
  BY <1>3, ZenonT(60) DEF CheckNoActive, Points, Request
<1>4. ASSUME NEW w \in Workers, InsertTransaction(w) PROVE TypeOK'
  <2>1. req[w].id \in PaymeIds /\ req[w].pay \in Payments
    BY <1>4 DEF InsertTransaction, CreateNamed
  <2>2. txn' \in [PaymeIds -> TxnRow]
    <3>1. [state |-> Pending, payment |-> req[w].pay] \in TxnRow
      BY <2>1 DEF TxnRow
    <3>2. QED
      BY <1>4, <2>1, <3>1 DEF InsertTransaction, TxnRow
  <2>3. req' \in [Workers -> Request]
    <3>1. req \in [Workers -> Request] /\ "mark" \in Points
      BY DEF Request, Points
    <3>2. CASE InsertAllowed(req[w].id, req[w].pay)
      <4>1. [req EXCEPT ![w].at = "mark"] \in [Workers -> Request]
        BY <3>1, FieldUpdates
      <4>2. QED
        BY <1>4, <3>2, <4>1 DEF InsertTransaction
    <3>3. CASE ~InsertAllowed(req[w].id, req[w].pay)
      BY <1>4, <3>1, <3>3 DEF InsertTransaction
    <3>4. QED
      BY <3>2, <3>3
  <2>4. QED
    BY <1>4, <2>2, <2>3 DEF InsertTransaction, TxnRow, Request
<1>5. ASSUME NEW w \in Workers, MarkPending(w) PROVE TypeOK'
  BY <1>5 DEF MarkPending, Status, Request
<1>6. ASSUME NEW w \in Workers, NEW t \in PaymeIds, NEW at \in {"perform", "cancel"},
             LockRow(w, t, at)
      PROVE TypeOK'
  BY <1>6 DEF LockRow, Points
<1>7. ASSUME NEW w \in Workers, Commit(w) PROVE TypeOK'
  <2>1. InTx(w) /\ req[w].id \in PaymeIds /\ req[w].pay \in Payments
    <3>1. InTx(w)
      BY <1>7 DEF Commit, PerformReplay, PerformTimeout, PerformCommit,
         CancelReplay, CancelPending, CancelPerformed, InTx
    <3>2. QED
      BY <3>1 DEF LockOwned, RowNamed
  <2>2. /\ rowLock' \in [PaymeIds -> Workers \cup {None}]
        /\ req' \in [Workers -> Request]
    BY <1>7, EndRequestType DEF Commit, PerformReplay, PerformTimeout,
       PerformCommit, CancelReplay, CancelPending, CancelPerformed
  <2>3. txn' \in [PaymeIds -> TxnRow]
    <3>1. txn \in [PaymeIds -> TxnRow]
      BY DEF TxnRow
    <3>2. /\ [txn EXCEPT ![req[w].id].state = -1] \in [PaymeIds -> TxnRow]
          /\ [txn EXCEPT ![req[w].id].state = -2] \in [PaymeIds -> TxnRow]
          /\ [txn EXCEPT ![req[w].id].state = Performed] \in [PaymeIds -> TxnRow]
      BY <2>1, <3>1, FieldUpdates
    <3>3. QED
      BY <1>7, <3>1, <3>2 DEF Commit, PerformReplay, PerformTimeout, PerformCommit,
         CancelReplay, CancelPending, CancelPerformed
  <2>4. /\ status' \in [Payments -> Status]
        /\ grants' \in [PaymeIds -> Nat]
        /\ live' \in [Payments -> Nat]
    <3>1. CASE PerformReplay(w) \/ CancelReplay(w)
      BY <3>1 DEF PerformReplay, CancelReplay
    <3>2. CASE PerformTimeout(w) \/ CancelPending(w)
      BY <3>2 DEF PerformTimeout, CancelPending, Status
    <3>3. CASE PerformCommit(w)
      BY <3>3, <2>1 DEF PerformCommit, Status
    <3>4. CASE CancelPerformed(w)
      BY <3>4 DEF CancelPerformed, Status
    <3>5. QED
      BY <1>7, <3>1, <3>2, <3>3, <3>4 DEF Commit
  <2>5. QED
    BY <1>7, <2>2, <2>3, <2>4 DEF Commit, PerformReplay, PerformTimeout, PerformCommit,
       CancelReplay, CancelPending, CancelPerformed, TxnRow, Request
<1>8. ASSUME NEW w \in Workers, Abort(w) PROVE TypeOK'
  BY <1>8, EndRequestType DEF Abort, Request
<1>9. ASSUME NEW t \in PaymeIds, WindowPasses(t) PROVE TypeOK'
  BY <1>9 DEF WindowPasses
<1>10. ASSUME NEW p \in Payments, VoidPayment(p) PROVE TypeOK'
  BY <1>10 DEF VoidPayment, Status
<1>11. CASE UNCHANGED vars
  BY <1>11 DEF vars
<1>12. QED
  BY <1>1, <1>2, <1>3, <1>4, <1>5, <1>6, <1>7, <1>8, <1>9, <1>10, <1>11
     DEF Next, CreateStep, PerformTransaction, CancelTransaction

-----------------------------------------------------------------------------
(* Locks.                                                                  *)

Locks == LockOwned /\ LockHeld /\ CreateNamed

\* What a request holds when it ends is released and nobody else's lock is
\* touched.
LEMMA EndRequestLocks ==
    ASSUME TypeOK, NEW w \in Workers, EndRequest(w)
    PROVE  /\ \A v \in Workers : v # w => req'[v] = req[v]
           /\ req'[w] = Idle
           /\ \A t \in PaymeIds : rowLock'[t] = IF rowLock[t] = w THEN None ELSE rowLock[t]
BY DEF TypeOK, EndRequest

\* A worker that commits changes only the row it has locked.
LEMMA CommitRow ==
    ASSUME TypeOK, Locks, RowNamed, NEW w \in Workers, Commit(w)
    PROVE  /\ req[w].id \in PaymeIds /\ req[w].pay \in Payments
           /\ InTx(w) /\ EndRequest(w)
           /\ rowLock[req[w].id] = w
           /\ req[w].seen = txn[req[w].id].state
           /\ req[w].pay = txn[req[w].id].payment
           /\ \A u \in PaymeIds : txn'[u].payment = txn[u].payment
           /\ \A u \in PaymeIds : u # req[w].id => txn'[u] = txn[u]
           /\ txn'[req[w].id].state # NoRow
<1>1. InTx(w) /\ EndRequest(w)
  BY DEF Commit, PerformReplay, PerformTimeout, PerformCommit,
     CancelReplay, CancelPending, CancelPerformed, InTx
<1>2. /\ req[w].id \in PaymeIds /\ rowLock[req[w].id] = w
      /\ req[w].seen = txn[req[w].id].state /\ req[w].seen # NoRow
      /\ req[w].pay = txn[req[w].id].payment
  BY <1>1 DEF Locks, LockOwned
<1>3. req[w].pay \in Payments
  BY <1>2 DEF RowNamed, TypeOK
<1>4. /\ \A u \in PaymeIds : txn'[u].payment = txn[u].payment
      /\ \A u \in PaymeIds : u # req[w].id => txn'[u] = txn[u]
      /\ txn'[req[w].id].state # NoRow
  <2>1. CASE PerformReplay(w) \/ CancelReplay(w)
    BY <2>1, <1>2 DEF PerformReplay, CancelReplay
  <2>2. CASE PerformTimeout(w) \/ CancelPending(w)
    BY <2>2, <1>2 DEF PerformTimeout, CancelPending, TypeOK, NoRow
  <2>3. CASE PerformCommit(w)
    BY <2>3, <1>2 DEF PerformCommit, TypeOK, NoRow, Performed
  <2>4. CASE CancelPerformed(w)
    BY <2>4, <1>2 DEF CancelPerformed, TypeOK, NoRow
  <2>5. QED
    BY <2>1, <2>2, <2>3, <2>4 DEF Commit
<1>5. QED
  BY <1>1, <1>2, <1>3, <1>4

\* A request that ends, and changes at most the row it has locked, keeps the
\* lock discipline.
LEMMA EndKeepsLocks ==
    ASSUME TypeOK, Locks, NEW w \in Workers, EndRequest(w),
           \A u \in PaymeIds : rowLock[u] # w => txn'[u] = txn[u]
    PROVE  Locks'
<1> USE NoneAssumption, EndRequestLocks
<1>1. LockOwned'
  <2> SUFFICES ASSUME NEW v \in Workers, InTx(v)'
               PROVE  /\ req'[v].id \in PaymeIds
                      /\ rowLock'[req'[v].id] = v
                      /\ req'[v].seen = txn'[req'[v].id].state
                      /\ req'[v].seen # NoRow
                      /\ req'[v].pay = txn'[req'[v].id].payment
    BY DEF LockOwned
  <2>1. v # w /\ req'[v] = req[v]
    BY DEF InTx, Idle
  <2>2. QED
    BY <2>1 DEF Locks, LockOwned, InTx
<1>2. LockHeld'
  <2> SUFFICES ASSUME NEW t \in PaymeIds, rowLock'[t] # None
               PROVE  InTx(rowLock[t])' /\ req'[rowLock'[t]].id = t /\ rowLock'[t] = rowLock[t]
    BY DEF LockHeld, InTx
  <2>1. rowLock'[t] = rowLock[t] /\ rowLock[t] # w /\ rowLock[t] \in Workers
    BY DEF TypeOK
  <2>2. req'[rowLock[t]] = req[rowLock[t]] /\ InTx(rowLock[t]) /\ req[rowLock[t]].id = t
    BY <2>1 DEF Locks, LockHeld
  <2>3. QED
    BY <2>1, <2>2 DEF InTx
<1>3. CreateNamed'
  BY DEF Locks, CreateNamed, Idle
<1>4. QED
  BY <1>1, <1>2, <1>3 DEF Locks

\* The steps of a request that is not inside a transaction.
LEMMA CreateKeepsLocks ==
    ASSUME TypeOK, Locks, NEW w \in Workers, ~InTx(w), ~InTx(w)',
           \A v \in Workers : v # w => req'[v] = req[v],
           req'[w].at # "idle" => req'[w].id \in PaymeIds /\ req'[w].pay \in Payments,
           UNCHANGED rowLock,
           \A u \in PaymeIds : rowLock[u] # None => txn'[u] = txn[u]
    PROVE  Locks'
<1> USE NoneAssumption
<1>1. LockOwned'
  <2> SUFFICES ASSUME NEW v \in Workers, InTx(v)'
               PROVE  /\ req'[v].id \in PaymeIds
                      /\ rowLock'[req'[v].id] = v
                      /\ req'[v].seen = txn'[req'[v].id].state
                      /\ req'[v].seen # NoRow
                      /\ req'[v].pay = txn'[req'[v].id].payment
    BY DEF LockOwned
  <2>1. v # w /\ req'[v] = req[v]
    OBVIOUS
  <2>2. QED
    BY <2>1 DEF Locks, LockOwned, InTx
<1>2. LockHeld'
  <2> SUFFICES ASSUME NEW t \in PaymeIds, rowLock[t] # None
               PROVE  InTx(rowLock[t])' /\ req'[rowLock[t]].id = t
    BY DEF LockHeld, InTx
  <2>1. rowLock[t] # w /\ rowLock[t] \in Workers /\ InTx(rowLock[t]) /\ req[rowLock[t]].id = t
    BY DEF TypeOK, Locks, LockHeld
  <2>2. QED
    BY <2>1 DEF InTx
<1>3. CreateNamed'
  BY DEF Locks, CreateNamed
<1>4. QED
  BY <1>1, <1>2, <1>3 DEF Locks

\* Every step keeps the lock discipline: what performTransaction and
\* cancelTransaction read FOR UPDATE is still true when they commit.
LEMMA LocksStep ==
    ASSUME TypeOK, Locks, RowNamed, [Next]_vars
    PROVE  Locks'
<1> USE NoneAssumption
<1>1. ASSUME NEW w \in Workers, NEW t \in PaymeIds, NEW p \in Payments,
             CreateTransaction(w, t, p)
      PROVE Locks'
  BY <1>1, CreateKeepsLocks DEF CreateTransaction, InTx, Idle, TypeOK
<1>2. ASSUME NEW w \in Workers, ValidateAccountAmount(w) \/ CheckNoActive(w) \/ MarkPending(w)
      PROVE Locks'
  <2>1. req[w].id \in PaymeIds /\ req[w].pay \in Payments /\ ~InTx(w)
    BY <1>2 DEF ValidateAccountAmount, CheckNoActive, MarkPending, Locks, CreateNamed, InTx
  <2>2. /\ ~InTx(w)' /\ \A v \in Workers : v # w => req'[v] = req[v]
        /\ req'[w].at # "idle" => req'[w].id = req[w].id /\ req'[w].pay = req[w].pay
    BY <1>2 DEF ValidateAccountAmount, CheckNoActive, MarkPending, InTx, Idle, TypeOK
  <2>3. UNCHANGED <<rowLock, txn>>
    BY <1>2 DEF ValidateAccountAmount, CheckNoActive, MarkPending
  <2>4. QED
    BY <2>1, <2>2, <2>3, CreateKeepsLocks
<1>3. ASSUME NEW w \in Workers, InsertTransaction(w) PROVE Locks'
  <2>1. req[w].id \in PaymeIds /\ req[w].pay \in Payments /\ ~InTx(w)
    BY <1>3 DEF InsertTransaction, Locks, CreateNamed, InTx
  <2>2. /\ ~InTx(w)' /\ \A v \in Workers : v # w => req'[v] = req[v]
        /\ req'[w].at # "idle" => req'[w].id = req[w].id /\ req'[w].pay = req[w].pay
    BY <1>3 DEF InsertTransaction, InTx, Idle, TypeOK
  <2>3. \A u \in PaymeIds : rowLock[u] # None => txn[u].state # NoRow
    BY DEF Locks, LockHeld, LockOwned, TypeOK
  <2>4. \A u \in PaymeIds : rowLock[u] # None => txn'[u] = txn[u]
    BY <1>3, <2>1, <2>3 DEF InsertTransaction, InsertAllowed, TypeOK
  <2>5. QED
    BY <1>3, <2>1, <2>2, <2>4, CreateKeepsLocks DEF InsertTransaction
<1>4. ASSUME NEW w \in Workers, NEW t \in PaymeIds, NEW at \in {"perform", "cancel"},
             LockRow(w, t, at)
      PROVE Locks'
  <2>1. /\ req'[w] = [at |-> at, id |-> t, pay |-> txn[t].payment, seen |-> txn[t].state]
        /\ \A v \in Workers : v # w => req'[v] = req[v]
        /\ rowLock'[t] = w /\ \A u \in PaymeIds : u # t => rowLock'[u] = rowLock[u]
        /\ rowLock[t] = None /\ txn' = txn /\ txn[t].state # NoRow /\ ~InTx(w)
    BY <1>4 DEF LockRow, TypeOK, InTx, Idle
  <2>2. LockOwned'
    <3> SUFFICES ASSUME NEW v \in Workers, InTx(v)'
                 PROVE  /\ req'[v].id \in PaymeIds
                        /\ rowLock'[req'[v].id] = v
                        /\ req'[v].seen = txn'[req'[v].id].state
                        /\ req'[v].seen # NoRow
                        /\ req'[v].pay = txn'[req'[v].id].payment
      BY DEF LockOwned
    <3>1. CASE v = w
      BY <2>1, <3>1
    <3>2. CASE v # w
      <4>1. InTx(v) /\ req'[v] = req[v]
        BY <2>1, <3>2 DEF InTx
      <4>2. rowLock[req[v].id] = v /\ req[v].id # t
        BY <2>1, <4>1 DEF Locks, LockOwned
      <4>3. QED
        BY <2>1, <4>1, <4>2 DEF Locks, LockOwned
    <3>3. QED
      BY <3>1, <3>2
  <2>3. LockHeld'
    <3> SUFFICES ASSUME NEW u \in PaymeIds, rowLock'[u] # None
                 PROVE  req'[rowLock'[u]].at \in {"perform", "cancel"} /\ req'[rowLock'[u]].id = u
      BY DEF LockHeld, InTx
    <3>1. CASE u = t
      BY <2>1, <3>1
    <3>2. CASE u # t
      BY <2>1, <3>2 DEF Locks, LockHeld, InTx, TypeOK
    <3>3. QED
      BY <3>1, <3>2
  <2>4. CreateNamed'
    BY <2>1 DEF Locks, CreateNamed
  <2>5. QED
    BY <2>2, <2>3, <2>4 DEF Locks
<1>5. ASSUME NEW w \in Workers, Commit(w) PROVE Locks'
  <2>1. EndRequest(w) /\ \A u \in PaymeIds : rowLock[u] # w => txn'[u] = txn[u]
    BY <1>5, CommitRow
  <2>2. QED
    BY <2>1, EndKeepsLocks
<1>6. ASSUME NEW w \in Workers, Abort(w) PROVE Locks'
  BY <1>6, EndKeepsLocks DEF Abort
<1>7. CASE UNCHANGED <<rowLock, req, txn>>
  BY <1>7 DEF Locks, LockOwned, LockHeld, CreateNamed, InTx
<1>8. QED
  BY <1>1, <1>2, <1>3, <1>4, <1>5, <1>6, <1>7
     DEF Next, CreateStep, PerformTransaction, CancelTransaction, WindowPasses,
         VoidPayment, vars

-----------------------------------------------------------------------------
(* RowsAgree, orders and entitlements.                                          *)

Ledger == GrantedOnce /\ AccessIffPerformed /\ DeadOrderNotPerformed /\ PaidHasPerform

\* The invariants only look at the rows, the statuses and the grants.
LEMMA LedgerUnchanged ==
    ASSUME RowsAgree, Ledger, UNCHANGED <<txn, status, grants, live>>
    PROVE  RowsAgree' /\ Ledger'
BY DEF RowsAgree, RowNamed, OneActive, Active, Ledger, GrantedOnce, AccessIffPerformed,
   DeadOrderNotPerformed, PaidHasPerform, HasPerformed, Of

\* A new row is in state 1 and, thanks to the partial unique index, the only
\* active one of its order.
LEMMA InsertStep ==
    ASSUME TypeOK, Locks, RowsAgree, Ledger, NEW w \in Workers, InsertTransaction(w)
    PROVE  RowsAgree' /\ Ledger'
<1> DEFINE t == req[w].id
           p == req[w].pay
<1>1. CASE ~InsertAllowed(t, p)
  BY <1>1, LedgerUnchanged DEF InsertTransaction
<1>2. CASE InsertAllowed(t, p)
  <2>1. t \in PaymeIds /\ p \in Payments
    BY DEF InsertTransaction, Locks, CreateNamed
  <2>2. /\ txn'[t].state = Pending /\ txn'[t].payment = p
        /\ \A u \in PaymeIds : u # t => txn'[u] = txn[u]
        /\ txn[t].state = NoRow /\ txn[t].payment = None
        /\ UNCHANGED <<status, grants, live>>
    BY <1>2, <2>1 DEF InsertTransaction, InsertAllowed, TypeOK, RowsAgree, RowNamed
  <2>3. \A u \in PaymeIds : txn[u].payment = p => ~Active(u)
    BY <1>2 DEF InsertAllowed, Of
  <2> HIDE DEF t, p
  <2>4. RowsAgree'
    BY <2>1, <2>2, <2>3, NoneAssumption
       DEF RowsAgree, RowNamed, OneActive, Active, Pending, Performed, NoRow
  <2>5. \A q \in Payments : HasPerformed(q)' = HasPerformed(q)
    BY <2>1, <2>2 DEF HasPerformed, Of, Pending, Performed, NoRow
  <2>6. QED
    BY <2>2, <2>4, <2>5 DEF Ledger, GrantedOnce, AccessIffPerformed, DeadOrderNotPerformed,
       PaidHasPerform, Pending, Performed, NoRow
<1>3. QED
  BY <1>1, <1>2

\* The late SetPaymentStatus(pending) may bring a dead order back to pending,
\* but never makes one paid or dead.
LEMMA MarkPendingStep ==
    ASSUME TypeOK, Locks, RowsAgree, Ledger, NEW w \in Workers, MarkPending(w)
    PROVE  RowsAgree' /\ Ledger'
<1>1. req[w].pay \in Payments
  BY DEF MarkPending, Locks, CreateNamed
<1>2. /\ \A p \in Payments : status'[p] = "pending" \/ status'[p] = status[p]
      /\ UNCHANGED <<txn, grants, live>>
  BY <1>1 DEF MarkPending, TypeOK
<1>3. QED
  BY <1>2 DEF RowsAgree, RowNamed, OneActive, Active, Ledger, GrantedOnce, AccessIffPerformed,
     DeadOrderNotPerformed, PaidHasPerform, HasPerformed, Of

\* A performed order stays performed only through its own row: the row that
\* commits is the only active one of its order.
LEMMA CommitStep ==
    ASSUME TypeOK, Locks, RowsAgree, Ledger, NEW w \in Workers, Commit(w)
    PROVE  RowsAgree' /\ Ledger'
<1>0. PICK t \in PaymeIds, p \in Payments : t = req[w].id /\ p = req[w].pay
  BY CommitRow DEF RowsAgree
<1>1. /\ t = req[w].id /\ p = req[w].pay
      /\ req[w].seen = txn[t].state /\ p = txn[t].payment
      /\ \A u \in PaymeIds : txn'[u].payment = txn[u].payment
      /\ \A u \in PaymeIds : u # t => txn'[u] = txn[u]
      /\ txn'[t].state # NoRow
  BY <1>0, CommitRow DEF RowsAgree
<1>2. CASE PerformReplay(w) \/ CancelReplay(w)
  BY <1>2, LedgerUnchanged DEF PerformReplay, CancelReplay
<1>3. /\ Active(t) => \A u \in PaymeIds : txn[u].payment = p /\ Active(u) => u = t
      /\ \A q \in Payments : q # p => HasPerformed(q)' = HasPerformed(q)
  BY <1>1 DEF RowsAgree, OneActive, HasPerformed, Of
<1>4. CASE PerformTimeout(w) \/ CancelPending(w)
  <2>1. /\ txn[t].state = Pending /\ txn'[t].state = -1
        /\ status'[p] = "canceled" /\ \A q \in Payments : q # p => status'[q] = status[q]
        /\ UNCHANGED <<grants, live>>
    BY <1>1, <1>4 DEF PerformTimeout, CancelPending, TypeOK
  <2>2. ~HasPerformed(p) /\ ~HasPerformed(p)'
    BY <1>1, <1>3, <2>1 DEF HasPerformed, Of, Active, Pending, Performed
  <2>3. RowsAgree'
    BY <1>1, <2>1 DEF RowsAgree, RowNamed, OneActive, Active, Pending, Performed, NoRow
  <2>4. GrantedOnce'
    BY <1>1, <2>1 DEF Ledger, GrantedOnce, Pending, Performed
  <2>5. AccessIffPerformed' /\ DeadOrderNotPerformed' /\ PaidHasPerform'
    BY <1>3, <2>1, <2>2 DEF Ledger, AccessIffPerformed, DeadOrderNotPerformed, PaidHasPerform
  <2>6. QED
    BY <2>3, <2>4, <2>5 DEF Ledger
<1>5. CASE PerformCommit(w)
  <2>1. /\ txn[t].state = Pending /\ txn'[t].state = Performed
        /\ status'[p] = "paid" /\ \A q \in Payments : q # p => status'[q] = status[q]
        /\ grants'[t] = grants[t] + 1
        /\ \A u \in PaymeIds : u # t => grants'[u] = grants[u]
        /\ live'[p] = live[p] + 1 /\ \A q \in Payments : q # p => live'[q] = live[q]
    <3>1. /\ txn' = [txn EXCEPT ![t].state = Performed] /\ txn[t].state = Pending
          /\ status' = [status EXCEPT ![p] = "paid"]
          /\ grants' = [grants EXCEPT ![t] = @ + 1]
          /\ live' = [live EXCEPT ![p] = @ + 1]
      BY <1>1, <1>5 DEF PerformCommit
    <3>2. QED
      BY <3>1 DEF TypeOK
  <2>2. ~HasPerformed(p) /\ HasPerformed(p)'
    BY <1>1, <1>3, <2>1 DEF HasPerformed, Of, Active, Pending, Performed
  <2>3. RowsAgree'
    BY <1>1, <1>3, <2>1 DEF RowsAgree, RowNamed, OneActive, Active, Pending, Performed, NoRow
  <2>4. GrantedOnce'
    BY <1>1, <2>1 DEF Ledger, GrantedOnce, Pending, Performed
  <2>5. AccessIffPerformed' /\ DeadOrderNotPerformed' /\ PaidHasPerform'
    BY <1>1, <1>3, <2>1, <2>2 DEF Ledger, AccessIffPerformed, DeadOrderNotPerformed, PaidHasPerform
  <2>6. QED
    BY <2>3, <2>4, <2>5 DEF Ledger
<1>6. CASE CancelPerformed(w)
  <2>1. /\ txn[t].state = Performed /\ txn'[t].state = -2
        /\ status'[p] = "refunded" /\ \A q \in Payments : q # p => status'[q] = status[q]
        /\ live'[p] = 0 /\ \A q \in Payments : q # p => live'[q] = live[q]
        /\ UNCHANGED grants
    <3>1. /\ txn' = [txn EXCEPT ![t].state = -2] /\ txn[t].state = Performed
          /\ status' = [status EXCEPT ![p] = "refunded"]
          /\ live' = [live EXCEPT ![p] = 0] /\ UNCHANGED grants
      BY <1>1, <1>6 DEF CancelPerformed
    <3>2. QED
      BY <3>1 DEF TypeOK
  <2>2. ~HasPerformed(p)'
    BY <1>1, <1>3, <2>1 DEF HasPerformed, Of, Active, Pending, Performed
  <2>3. RowsAgree'
    BY <1>1, <2>1 DEF RowsAgree, RowNamed, OneActive, Active, Pending, Performed, NoRow
  <2>4. GrantedOnce'
    BY <1>1, <2>1 DEF Ledger, GrantedOnce, Pending, Performed
  <2>5. AccessIffPerformed' /\ DeadOrderNotPerformed' /\ PaidHasPerform'
    BY <1>3, <2>1, <2>2 DEF Ledger, AccessIffPerformed, DeadOrderNotPerformed, PaidHasPerform
  <2>6. QED
    BY <2>3, <2>4, <2>5 DEF Ledger
<1>7. QED
  BY <1>2, <1>4, <1>5, <1>6 DEF Commit

\* The admin only voids orders that are already dead.
LEMMA VoidStep ==
    ASSUME TypeOK, RowsAgree, Ledger, NEW p \in Payments, VoidPayment(p)
    PROVE  RowsAgree' /\ Ledger'
<1>1. /\ status[p] \in {"failed", "canceled"} /\ status'[p] = "voided"
      /\ \A q \in Payments : q # p => status'[q] = status[q]
      /\ UNCHANGED <<txn, grants, live>>
  BY DEF VoidPayment, TypeOK
<1>2. \A q \in Payments : HasPerformed(q)' = HasPerformed(q)
  BY <1>1 DEF HasPerformed, Of
<1>3. QED
  BY <1>1, <1>2 DEF RowsAgree, RowNamed, OneActive, Active, Ledger, GrantedOnce,
     AccessIffPerformed, DeadOrderNotPerformed, PaidHasPerform

-----------------------------------------------------------------------------
(* The theorems.                                                           *)

\* IInv holds initially and every step preserves it.
THEOREM Inductive == Spec => []IInv
<1>1. Init => IInv
  <2> SUFFICES ASSUME Init PROVE IInv
    OBVIOUS
  <2>1. TypeOK
    BY NoneAssumption, MaxAbortsAssumption
       DEF Init, TypeOK, Status, TxnState, Points, NoRow, Pending, Performed, Idle
  <2>2. LockOwned /\ LockHeld /\ CreateNamed /\ RowsAgree
    BY DEF Init, LockOwned, LockHeld, CreateNamed, InTx, Idle, RowsAgree, RowNamed,
       OneActive, Active, NoRow, Pending, Performed
  <2>3. GrantedOnce /\ AccessIffPerformed /\ DeadOrderNotPerformed /\ PaidHasPerform
    BY DEF Init, GrantedOnce, AccessIffPerformed, DeadOrderNotPerformed,
       PaidHasPerform, HasPerformed, Of, NoRow, Performed
  <2>4. QED
    BY <2>1, <2>2, <2>3 DEF IInv
<1>2. IInv /\ [Next]_vars => IInv'
  <2> SUFFICES ASSUME IInv, [Next]_vars PROVE IInv'
    OBVIOUS
  <2>1. TypeOK /\ Locks /\ RowsAgree /\ RowNamed /\ Ledger
    BY DEF IInv, Locks, Ledger, RowsAgree
  <2>2. TypeOK'
    BY <2>1, TypeStep DEF Locks
  <2>3. Locks'
    BY <2>1, LocksStep
  <2>4. RowsAgree' /\ Ledger'
    <3>1. ASSUME NEW w \in Workers, InsertTransaction(w) PROVE RowsAgree' /\ Ledger'
      BY <2>1, <3>1, InsertStep
    <3>2. ASSUME NEW w \in Workers, MarkPending(w) PROVE RowsAgree' /\ Ledger'
      BY <2>1, <3>2, MarkPendingStep
    <3>3. ASSUME NEW w \in Workers, Commit(w) PROVE RowsAgree' /\ Ledger'
      BY <2>1, <3>3, CommitStep
    <3>4. ASSUME NEW p \in Payments, VoidPayment(p) PROVE RowsAgree' /\ Ledger'
      BY <2>1, <3>4, VoidStep
    <3>5. CASE UNCHANGED <<txn, status, grants, live>>
      BY <2>1, <3>5, LedgerUnchanged
    <3>6. QED
      BY <3>1, <3>2, <3>3, <3>4, <3>5 DEF Next, CreateStep, CreateTransaction,
         ValidateAccountAmount, CheckNoActive, PerformTransaction, CancelTransaction,
         LockRow, Abort, WindowPasses, vars
  <2>5. QED
    BY <2>2, <2>3, <2>4 DEF IInv, Locks, Ledger
<1>3. QED
  BY <1>1, <1>2, PTL DEF Spec

\* Every variable of the Payme model keeps its type.
THEOREM TypeCorrect == Spec => []TypeOK
<1>1. IInv => TypeOK
  BY DEF IInv
<1>2. QED
  BY <1>1, Inductive, PTL

\* performTransaction grants a transaction's entitlement at most once, and
\* exactly once when the transaction is in state 2 or -2, however many
\* retries overlap or die.
THEOREM GrantedOnceThm == Spec => []GrantedOnce
<1>1. IInv => GrantedOnce
  BY DEF IInv
<1>2. QED
  BY <1>1, Inductive, PTL

\* The customer holds the entitlement of an order exactly while one of its
\* transactions is performed.
THEOREM AccessIffPerformedThm == Spec => []AccessIffPerformed
<1>1. IInv => AccessIffPerformed
  BY DEF IInv
<1>2. QED
  BY <1>1, Inductive, PTL

\* A canceled, refunded or voided order has no performed transaction, and a
\* paid one has one (with the types of every variable).
THEOREM StatusAgreesThm == Spec => []StatusAgrees
<1>1. IInv => StatusAgrees
  BY DEF IInv, StatusAgrees
<1>2. QED
  BY <1>1, Inductive, PTL

-----------------------------------------------------------------------------
(***************************************************************************)
(* Click (the module of that name), for any orders, rows, transactions and *)
(* requests in flight.                                                     *)
(*                                                                         *)
(* The verdict of a row rests on its lock and on Click: whoever is about   *)
(* to grant holds the row and found it not confirmed (RowOwned), and a row *)
(* has the verdict of one of its transaction's answers (CallNamed,         *)
(* RowVerdict), so that only a transaction that Click both pays and        *)
(* declines is wanted by both sides.  One grant per order needs that at    *)
(* most one row of an order is active (OneActiveRow).                      *)
(***************************************************************************)
\* The ids are told apart: None is no id.
ClickConstants ==
    /\ None \notin Rows \cup Payments \cup Click!ClickIds \cup ClickWorkers
    /\ ClickAborts \in Nat

\* A row lock is held by a worker inside confirmAndGrant, on that row.
RowHeld ==
    \A r \in Rows : cRowLock[r] # None =>
        cReq[cRowLock[r]].at = "grant" /\ cReq[cRowLock[r]].row = r

\* A worker inside confirmAndGrant holds the lock of its row, which it has
\* found not confirmed.
RowOwned ==
    \A w \in ClickWorkers : cReq[w].at = "grant" =>
        cRowLock[cReq[w].row] = w /\ row[cReq[w].row].state # Click!Confirmed

\* A request past its first read names an order and a transaction, and a
\* Complete names an existing row and carries that row's order.
CallNamed ==
    \A w \in ClickWorkers :
        /\ cReq[w].at # "idle" => cReq[w].click \in Click!ClickIds /\ cReq[w].pay \in Payments
        /\ cReq[w].at \in {"status", "reject", "confirm", "grant"} =>
              /\ cReq[w].row \in Rows
              /\ row[cReq[w].row].state # Click!NoRow
              /\ row[cReq[w].row].payment = cReq[w].pay
              /\ row[cReq[w].row].click = cReq[w].click
        /\ cReq[w].at \in {"reject", "confirm", "grant"} => cReq[w].seen # Click!Rejected
        /\ cReq[w].at = "reject" => cReq[w].click \in Declining
        /\ cReq[w].at \in {"confirm", "grant"} => cReq[w].click \in Paying

\* A row exists exactly when it names an order and a transaction.
ClickRowNamed ==
    \A r \in Rows : /\ row[r].state = Click!NoRow <=> row[r].payment = None
                    /\ row[r].state = Click!NoRow <=> row[r].click = None

\* A row's verdict is Click's.
RowVerdict ==
    \A r \in Rows : /\ row[r].state = Click!Rejected => row[r].click \in Declining
                    /\ row[r].state = Click!Confirmed => row[r].click \in Paying

\* click_transaction_one_active_per_payment.
OneActiveRow ==
    \A r, s \in Rows :
        Click!Active(r) /\ Click!Active(s) /\ row[r].payment = row[s].payment => r = s

CallsOK == RowHeld /\ RowOwned /\ CallNamed
TableOK == ClickRowNamed /\ RowVerdict /\ OneActiveRow
OrdersOK == Click!PaidHasConfirm /\ Click!OneGrantPerOrder
ClickIInv == Click!TypeOK /\ CallsOK /\ TableOK /\ OrdersOK

-----------------------------------------------------------------------------
(* Types.                                                                  *)

ClickRow == [state : Click!RowState, payment : Payments \cup {None}, click : Click!ClickIds \cup {None}]
ClickCall == [at : Click!Points, row : Rows \cup {None}, click : Click!ClickIds \cup {None},
            pay : Payments \cup {None}, seen : Click!RowState]

\* The constants lie in their sets.
LEMMA ClickValues ==
    /\ {Click!Waiting, Click!Confirmed, Click!Rejected, Click!NoRow} \subseteq Click!RowState
    /\ Click!Waiting # Click!Confirmed /\ Click!Waiting # Click!Rejected /\ Click!Waiting # Click!NoRow
    /\ Click!Confirmed # Click!Rejected /\ Click!Confirmed # Click!NoRow /\ Click!Rejected # Click!NoRow
    /\ Click!Idle \in ClickCall
    /\ Click!Idle.at = "idle"
BY DEF Click!RowState, Click!Waiting, Click!Confirmed, Click!Rejected, Click!NoRow, Click!Idle, ClickCall, Click!Points

\* Changing one field of one row or one request keeps it well typed.
LEMMA ClickFields ==
    /\ \A f \in [Rows -> ClickRow], r \in Rows, s \in Click!RowState :
          [f EXCEPT ![r].state = s] \in [Rows -> ClickRow]
    /\ \A f \in [ClickWorkers -> ClickCall], w \in ClickWorkers, a \in Click!Points :
          [f EXCEPT ![w].at = a] \in [ClickWorkers -> ClickCall]
    /\ \A f \in [ClickWorkers -> ClickCall], w \in ClickWorkers :
          [f EXCEPT ![w] = Click!Idle] \in [ClickWorkers -> ClickCall]
BY ClickValues DEF ClickRow, ClickCall

\* Moving a request on, ending it and releasing its lock keep the types.
LEMMA CallMoves ==
    ASSUME Click!TypeOK, NEW w \in ClickWorkers
    PROVE  /\ \A a \in Click!Points : Click!GoTo(w, a) => cReq' \in [ClickWorkers -> ClickCall]
           /\ Click!End(w) => cReq' \in [ClickWorkers -> ClickCall]
           /\ Click!Unlock(w) => cRowLock' \in [Rows -> ClickWorkers \cup {None}]
<1>1. cReq \in [ClickWorkers -> ClickCall]
  BY DEF Click!TypeOK, ClickCall
<1>2. ASSUME NEW a \in Click!Points, Click!GoTo(w, a) PROVE cReq' \in [ClickWorkers -> ClickCall]
  BY <1>1, <1>2, ClickFields DEF Click!GoTo
<1>3. Click!End(w) => cReq' \in [ClickWorkers -> ClickCall]
  BY <1>1, ClickFields DEF Click!End
<1>4. Click!Unlock(w) => cRowLock' \in [Rows -> ClickWorkers \cup {None}]
  BY DEF Click!Unlock, Click!TypeOK
<1>5. QED
  BY <1>2, <1>3, <1>4

\* Every step keeps every variable in its type.
LEMMA ClickTypes ==
    ASSUME ClickConstants, Click!TypeOK, CallNamed, ClickRowNamed, [Click!Next]_Click!vars
    PROVE  Click!TypeOK'
<1>0. /\ cReq \in [ClickWorkers -> ClickCall] /\ row \in [Rows -> ClickRow]
      /\ (cReq' \in [ClickWorkers -> ClickCall] /\ row' \in [Rows -> ClickRow]
          /\ cStatus' \in [Payments -> Click!Status] /\ cTombs' \in SUBSET Payments
          /\ cRowLock' \in [Rows -> ClickWorkers \cup {None}]
          /\ cGrants' \in [Payments -> Nat] /\ cAborts' \in 0..ClickAborts => Click!TypeOK')
  BY DEF Click!TypeOK, ClickCall, ClickRow
<1>1. ASSUME NEW w \in ClickWorkers, NEW c \in Click!ClickIds, NEW p \in Payments, Click!Prepare(w, c, p)
      PROVE  Click!TypeOK'
  <2>1. [Click!Idle EXCEPT !.at = "payable", !.click = c, !.pay = p] \in ClickCall
    BY ClickValues DEF ClickCall, Click!Points
  <2>2. cReq' \in [ClickWorkers -> ClickCall]
    BY <1>0, <1>1, <2>1 DEF Click!Prepare
  <2>3. QED
    BY <1>0, <1>1, <2>2 DEF Click!Prepare, Click!TypeOK
<1>2. ASSUME NEW w \in ClickWorkers, Click!PreparePayable(w) \/ Click!PrepareLookup(w) \/ Click!PrepareActive(w)
                                 \/ Click!CompleteStatus(w)
      PROVE  Click!TypeOK'
  <2>1. \/ \E a \in {"lookup", "active", "insert", "reject", "confirm"} : Click!GoTo(w, a)
        \/ Click!End(w)
    BY <1>2 DEF Click!PreparePayable, Click!PrepareLookup, Click!PrepareActive, Click!CompleteStatus
  <2>2. cReq' \in [ClickWorkers -> ClickCall]
    BY <2>1, CallMoves DEF Click!Points
  <2>3. QED
    BY <1>0, <1>2, <2>2 DEF Click!PreparePayable, Click!PrepareLookup, Click!PrepareActive, Click!CompleteStatus, Click!TypeOK
<1>3. ASSUME NEW w \in ClickWorkers, Click!PrepareInsert(w) PROVE Click!TypeOK'
  <2>1. cReq[w].click \in Click!ClickIds /\ cReq[w].pay \in Payments
    BY <1>3 DEF Click!PrepareInsert, CallNamed
  <2>2. [state |-> Click!Waiting, payment |-> cReq[w].pay, click |-> cReq[w].click] \in ClickRow
    BY <2>1, ClickValues DEF ClickRow
  <2>3. row' \in [Rows -> ClickRow]
    BY <1>0, <1>3, <2>2 DEF Click!PrepareInsert
  <2>4. cReq' \in [ClickWorkers -> ClickCall]
    BY <1>3, CallMoves DEF Click!PrepareInsert, Click!Points
  <2>5. QED
    BY <1>0, <1>3, <2>3, <2>4 DEF Click!PrepareInsert, Click!TypeOK
<1>4. ASSUME NEW w \in ClickWorkers, Click!PrepareMark(w) PROVE Click!TypeOK'
  <2>1. cReq' \in [ClickWorkers -> ClickCall]
    BY <1>4, CallMoves DEF Click!PrepareMark
  <2>2. QED
    BY <1>0, <1>4, <2>1 DEF Click!PrepareMark, Click!TypeOK, Click!Status
<1>5. ASSUME NEW w \in ClickWorkers, NEW r \in Rows, Click!Complete(w, r) PROVE Click!TypeOK'
  <2>1. [at |-> "status", row |-> r, click |-> row[r].click,
         pay |-> row[r].payment, seen |-> row[r].state] \in ClickCall
    BY <1>0 DEF ClickCall, ClickRow, Click!Points
  <2>2. cReq' \in [ClickWorkers -> ClickCall]
    BY <1>0, <1>5, <2>1 DEF Click!Complete
  <2>3. QED
    BY <1>0, <1>5, <2>2 DEF Click!Complete, Click!TypeOK
<1>6. ASSUME NEW w \in ClickWorkers, Click!RejectTransaction(w) PROVE Click!TypeOK'
  <2>1. cReq[w].row \in Rows /\ cReq[w].pay \in Payments
    BY <1>6 DEF Click!RejectTransaction, CallNamed
  <2>2. row' \in [Rows -> ClickRow]
    BY <1>0, <1>6, <2>1, ClickFields, ClickValues DEF Click!RejectTransaction
  <2>3. cReq' \in [ClickWorkers -> ClickCall]
    BY <1>6, CallMoves DEF Click!RejectTransaction
  <2>4. QED
    BY <1>0, <1>6, <2>2, <2>3 DEF Click!RejectTransaction, Click!TypeOK, Click!Status
<1>7. ASSUME NEW w \in ClickWorkers, Click!ConfirmLock(w) PROVE Click!TypeOK'
  <2>1. cReq' \in [ClickWorkers -> ClickCall]
    BY <1>7, CallMoves DEF Click!ConfirmLock, Click!Points
  <2>2. QED
    BY <1>0, <1>7, <2>1 DEF Click!ConfirmLock, Click!TypeOK
<1>8. ASSUME NEW w \in ClickWorkers, Click!ConfirmAndGrant(w) PROVE Click!TypeOK'
  <2>1. cReq[w].row \in Rows /\ cReq[w].pay \in Payments
    BY <1>8 DEF Click!ConfirmAndGrant, CallNamed
  <2>2. row' \in [Rows -> ClickRow]
    BY <1>0, <1>8, <2>1, ClickFields, ClickValues DEF Click!ConfirmAndGrant
  <2>3. cReq' \in [ClickWorkers -> ClickCall] /\ cRowLock' \in [Rows -> ClickWorkers \cup {None}]
    BY <1>8, CallMoves DEF Click!ConfirmAndGrant
  <2>4. cStatus' \in [Payments -> Click!Status] /\ cGrants' \in [Payments -> Nat]
    BY <1>8, <2>1, SMTT(40) DEF Click!ConfirmAndGrant, Click!TypeOK, Click!Status
  <2>5. QED
    BY <1>0, <1>8, <2>2, <2>3, <2>4 DEF Click!ConfirmAndGrant, Click!TypeOK
<1>9. ASSUME NEW w \in ClickWorkers, Click!Abort(w) PROVE Click!TypeOK'
  <2>1. cReq' \in [ClickWorkers -> ClickCall] /\ cRowLock' \in [Rows -> ClickWorkers \cup {None}]
    BY <1>9, CallMoves DEF Click!Abort
  <2>2. QED
    BY <1>0, <1>9, <2>1 DEF Click!Abort, Click!TypeOK, ClickConstants
<1>10. ASSUME NEW p \in Payments, Click!VoidPayment(p) PROVE Click!TypeOK'
  BY <1>0, <1>10 DEF Click!VoidPayment, Click!TypeOK, Click!Status
<1>11. CASE UNCHANGED Click!vars
  BY <1>11 DEF Click!vars, Click!TypeOK
<1>12. QED
  BY <1>1, <1>2, <1>3, <1>4, <1>5, <1>6, <1>7, <1>8, <1>9, <1>10, <1>11
     DEF Click!Next, Click!PrepareStep, Click!CompleteStep

-----------------------------------------------------------------------------
(* Locks and requests.                                                     *)

\* What GoTo, End and Unlock do, worker by worker and row by row.
LEMMA ClickEnds ==
    ASSUME Click!TypeOK, NEW w \in ClickWorkers
    PROVE  /\ \A a : Click!GoTo(w, a) => /\ cReq'[w].at = a /\ cReq'[w].row = cReq[w].row
                                   /\ cReq'[w].click = cReq[w].click /\ cReq'[w].pay = cReq[w].pay /\ cReq'[w].seen = cReq[w].seen
                                   /\ \A v \in ClickWorkers \ {w} : cReq'[v] = cReq[v]
           /\ Click!End(w) => cReq'[w] = Click!Idle /\ \A v \in ClickWorkers \ {w} : cReq'[v] = cReq[v]
           /\ Click!Unlock(w) => \A r \in Rows :
                 cRowLock'[r] = IF cRowLock[r] = w THEN None ELSE cRowLock[r]
<1>1. ASSUME NEW a, Click!GoTo(w, a)
      PROVE  /\ cReq'[w].at = a /\ cReq'[w].row = cReq[w].row
             /\ cReq'[w].click = cReq[w].click /\ cReq'[w].pay = cReq[w].pay /\ cReq'[w].seen = cReq[w].seen
             /\ \A v \in ClickWorkers \ {w} : cReq'[v] = cReq[v]
  BY <1>1 DEF Click!GoTo, Click!TypeOK
<1>2. Click!End(w) => cReq'[w] = Click!Idle /\ \A v \in ClickWorkers \ {w} : cReq'[v] = cReq[v]
  BY DEF Click!End, Click!TypeOK
<1>3. Click!Unlock(w) => \A r \in Rows :
         cRowLock'[r] = IF cRowLock[r] = w THEN None ELSE cRowLock[r]
  BY DEF Click!Unlock
<1>4. QED
  BY <1>1, <1>2, <1>3

\* What a well-formed request of one worker says (ReqNamed, worker by worker).
CallIsNamed(w) ==
    /\ cReq[w].at # "idle" => cReq[w].click \in Click!ClickIds /\ cReq[w].pay \in Payments
    /\ cReq[w].at \in {"status", "reject", "confirm", "grant"} =>
          /\ cReq[w].row \in Rows
          /\ row[cReq[w].row].state # Click!NoRow
          /\ row[cReq[w].row].payment = cReq[w].pay
          /\ row[cReq[w].row].click = cReq[w].click
    /\ cReq[w].at \in {"reject", "confirm", "grant"} => cReq[w].seen # Click!Rejected
    /\ cReq[w].at = "reject" => cReq[w].click \in Declining
    /\ cReq[w].at \in {"confirm", "grant"} => cReq[w].click \in Paying

\* A row that exists keeps its order and its transaction, and a locked row is
\* changed by its owner only.
RowsKept(w) ==
    \A r \in Rows :
        /\ row[r].state # Click!NoRow => /\ row'[r].state # Click!NoRow
                                   /\ row'[r].payment = row[r].payment
                                   /\ row'[r].click = row[r].click
        /\ cRowLock[r] \notin {w, None} => row'[r] = row[r]

\* A step of a worker outside the transaction, which touches no lock.
LEMMA OutsideStep ==
    ASSUME ClickConstants, Click!TypeOK, CallsOK, NEW w \in ClickWorkers, RowsKept(w), UNCHANGED cRowLock,
           cReq[w].at # "grant", cReq'[w].at # "grant", CallIsNamed(w)',
           \A v \in ClickWorkers \ {w} : cReq'[v] = cReq[v]
    PROVE  CallsOK'
<1>1. RowHeld'
  <2> SUFFICES ASSUME NEW r \in Rows, cRowLock[r] # None
               PROVE  cReq'[cRowLock[r]].at = "grant" /\ cReq'[cRowLock[r]].row = r
    BY DEF RowHeld
  <2>1. cRowLock[r] \in ClickWorkers /\ cReq[cRowLock[r]].at = "grant" /\ cReq[cRowLock[r]].row = r
    BY DEF CallsOK, RowHeld, Click!TypeOK
  <2>2. QED
    BY <2>1
<1>2. RowOwned'
  <2> SUFFICES ASSUME NEW v \in ClickWorkers, cReq'[v].at = "grant"
               PROVE  cRowLock[cReq'[v].row] = v /\ row'[cReq'[v].row].state # Click!Confirmed
    BY DEF RowOwned
  <2>1. v # w /\ cReq'[v] = cReq[v] /\ cReq[v].at = "grant"
    OBVIOUS
  <2>2. cReq[v].row \in Rows /\ cRowLock[cReq[v].row] = v /\ row[cReq[v].row].state # Click!Confirmed
    BY <2>1 DEF CallsOK, CallNamed, RowOwned
  <2>3. QED
    BY <2>1, <2>2 DEF RowsKept, ClickConstants
<1>3. CallNamed'
  <2> SUFFICES ASSUME NEW v \in ClickWorkers PROVE CallIsNamed(v)'
    BY DEF CallNamed, CallIsNamed
  <2>1. CASE v = w
    BY <2>1
  <2>2. CASE v # w
    <3>1. CallIsNamed(v) /\ cReq'[v] = cReq[v]
      BY <2>2 DEF CallsOK, CallNamed, CallIsNamed
    <3>2. QED
      BY <3>1 DEF CallIsNamed, RowsKept
  <2>3. QED
    BY <2>1, <2>2
<1>4. QED
  BY <1>1, <1>2, <1>3 DEF CallsOK

\* A request that ends and gives its lock back.
LEMMA CallEnds ==
    ASSUME ClickConstants, Click!TypeOK, CallsOK, NEW w \in ClickWorkers, RowsKept(w), Click!End(w), Click!Unlock(w)
    PROVE  CallsOK'
<1>0. /\ cReq'[w] = Click!Idle /\ \A v \in ClickWorkers \ {w} : cReq'[v] = cReq[v]
      /\ \A r \in Rows : cRowLock'[r] = IF cRowLock[r] = w THEN None ELSE cRowLock[r]
      /\ Click!Idle.at = "idle"
  BY ClickEnds, ClickValues
<1>1. RowHeld'
  <2> SUFFICES ASSUME NEW r \in Rows, cRowLock'[r] # None
               PROVE  cReq'[cRowLock'[r]].at = "grant" /\ cReq'[cRowLock'[r]].row = r
    BY DEF RowHeld
  <2>1. /\ cRowLock'[r] = cRowLock[r] /\ cRowLock[r] \in ClickWorkers \ {w}
        /\ cReq[cRowLock[r]].at = "grant" /\ cReq[cRowLock[r]].row = r
    BY <1>0 DEF CallsOK, RowHeld, Click!TypeOK
  <2>2. QED
    BY <1>0, <2>1
<1>2. RowOwned'
  <2> SUFFICES ASSUME NEW v \in ClickWorkers, cReq'[v].at = "grant"
               PROVE  cRowLock'[cReq'[v].row] = v /\ row'[cReq'[v].row].state # Click!Confirmed
    BY DEF RowOwned
  <2>1. v # w /\ cReq'[v] = cReq[v] /\ cReq[v].at = "grant"
    BY <1>0
  <2>2. cReq[v].row \in Rows /\ cRowLock[cReq[v].row] = v /\ row[cReq[v].row].state # Click!Confirmed
    BY <2>1 DEF CallsOK, CallNamed, RowOwned
  <2>3. QED
    BY <1>0, <2>1, <2>2 DEF RowsKept, ClickConstants
<1>3. CallNamed'
  <2> SUFFICES ASSUME NEW v \in ClickWorkers PROVE CallIsNamed(v)'
    BY DEF CallNamed, CallIsNamed
  <2>1. CASE v = w
    BY <1>0, <2>1 DEF CallIsNamed
  <2>2. CASE v # w
    <3>1. CallIsNamed(v) /\ cReq'[v] = cReq[v]
      BY <1>0, <2>2 DEF CallsOK, CallNamed, CallIsNamed
    <3>2. QED
      BY <3>1 DEF CallIsNamed, RowsKept
  <2>3. QED
    BY <2>1, <2>2
<1>4. QED
  BY <1>1, <1>2, <1>3 DEF CallsOK

\* Every step keeps the lock discipline and what the requests have read true.
LEMMA CallsStep ==
    ASSUME ClickConstants, Click!TypeOK, CallsOK, ClickRowNamed, [Click!Next]_Click!vars
    PROVE  CallsOK'
<1>0. \A w \in ClickWorkers : CallIsNamed(w)
  BY DEF CallsOK, CallNamed, CallIsNamed
<1>1. ASSUME NEW w \in ClickWorkers, NEW c \in Click!ClickIds, NEW p \in Payments, Click!Prepare(w, c, p)
      PROVE  CallsOK'
  <2>1. /\ cReq'[w].at = "payable" /\ cReq'[w].click = c /\ cReq'[w].pay = p
        /\ cReq[w].at = "idle" /\ \A v \in ClickWorkers \ {w} : cReq'[v] = cReq[v]
    BY <1>1 DEF Click!Prepare, Click!TypeOK, Click!Idle
  <2>2. CallIsNamed(w)' /\ RowsKept(w)
    BY <1>1, <2>1 DEF CallIsNamed, RowsKept, Click!Prepare
  <2>3. QED
    BY <1>1, <2>1, <2>2, OutsideStep DEF Click!Prepare
<1>2. ASSUME NEW w \in ClickWorkers, Click!PreparePayable(w) \/ Click!PrepareLookup(w) \/ Click!PrepareActive(w)
                                 \/ Click!CompleteStatus(w)
      PROVE  CallsOK'
  <2>1. /\ UNCHANGED <<row, cRowLock>> /\ cReq[w].at \notin {"grant", "idle"}
        /\ \A v \in ClickWorkers \ {w} : cReq'[v] = cReq[v]
        /\ \/ cReq'[w] = Click!Idle
           \/ /\ cReq'[w].row = cReq[w].row /\ cReq'[w].click = cReq[w].click
              /\ cReq'[w].pay = cReq[w].pay
              /\ \/ cReq'[w].at \in {"lookup", "active", "insert"}
                 \/ cReq[w].at = "status" /\ cReq'[w].at = "reject" /\ cReq[w].click \in Declining
                    /\ cReq'[w].seen # Click!Rejected
                 \/ cReq[w].at = "status" /\ cReq'[w].at = "confirm" /\ cReq[w].click \in Paying
                    /\ cReq'[w].seen # Click!Rejected
    BY <1>2, ClickEnds DEF Click!PreparePayable, Click!PrepareLookup, Click!PrepareActive, Click!CompleteStatus
  <2>2. cReq'[w].at # "grant" /\ CallIsNamed(w)' /\ RowsKept(w)
    BY <1>0, <2>1, ClickValues DEF CallIsNamed, RowsKept
  <2>3. QED
    BY <2>1, <2>2, OutsideStep
<1>3. ASSUME NEW w \in ClickWorkers, Click!PrepareInsert(w) PROVE CallsOK'
  <2>1. /\ UNCHANGED cRowLock /\ cReq[w].at = "insert"
        /\ \A v \in ClickWorkers \ {w} : cReq'[v] = cReq[v]
        /\ \/ cReq'[w] = Click!Idle
           \/ cReq'[w].at = "mark" /\ cReq'[w].click = cReq[w].click /\ cReq'[w].pay = cReq[w].pay
        /\ \A r \in Rows : row'[r] = row[r] \/ row[r].state = Click!NoRow
    BY <1>3, ClickEnds DEF Click!PrepareInsert, Click!TypeOK
  <2>2. \A r \in Rows : cRowLock[r] # None => row[r].state # Click!NoRow
    BY DEF CallsOK, RowHeld, CallNamed, Click!TypeOK
  <2>3. cReq'[w].at # "grant" /\ CallIsNamed(w)' /\ RowsKept(w)
    BY <1>0, <2>1, <2>2, ClickValues DEF CallIsNamed, RowsKept
  <2>4. QED
    BY <2>1, <2>3, OutsideStep
<1>4. ASSUME NEW w \in ClickWorkers, Click!PrepareMark(w) PROVE CallsOK'
  <2>1. /\ UNCHANGED <<row, cRowLock>> /\ cReq[w].at # "grant" /\ cReq'[w] = Click!Idle
        /\ \A v \in ClickWorkers \ {w} : cReq'[v] = cReq[v]
    BY <1>4, ClickEnds DEF Click!PrepareMark
  <2>2. cReq'[w].at # "grant" /\ CallIsNamed(w)' /\ RowsKept(w)
    BY <2>1, ClickValues DEF CallIsNamed, RowsKept
  <2>3. QED
    BY <2>1, <2>2, OutsideStep
<1>5. ASSUME NEW w \in ClickWorkers, NEW r \in Rows, Click!Complete(w, r) PROVE CallsOK'
  <2>1. /\ UNCHANGED <<row, cRowLock>> /\ cReq[w].at = "idle" /\ row[r].state # Click!NoRow
        /\ \A v \in ClickWorkers \ {w} : cReq'[v] = cReq[v]
        /\ cReq'[w].at = "status" /\ cReq'[w].row = r
        /\ cReq'[w].click = row[r].click /\ cReq'[w].pay = row[r].payment
    BY <1>5 DEF Click!Complete, Click!TypeOK, Click!Idle
  <2>2. CallIsNamed(w)' /\ RowsKept(w)
    BY <2>1 DEF CallIsNamed, RowsKept, ClickRowNamed, Click!TypeOK
  <2>3. QED
    BY <2>1, <2>2, OutsideStep
<1>6. ASSUME NEW w \in ClickWorkers, Click!RejectTransaction(w) PROVE CallsOK'
  <2>1. cReq[w].row \in Rows /\ cRowLock[cReq[w].row] = None /\ row[cReq[w].row].state # Click!NoRow
    BY <1>0, <1>6 DEF Click!RejectTransaction, CallIsNamed
  <2>2. /\ UNCHANGED cRowLock /\ cReq[w].at # "grant" /\ cReq'[w] = Click!Idle
        /\ \A v \in ClickWorkers \ {w} : cReq'[v] = cReq[v]
    BY <1>6, ClickEnds DEF Click!RejectTransaction
  <2>3. RowsKept(w)
    BY <1>6, <2>1, ClickValues DEF Click!RejectTransaction, RowsKept, Click!TypeOK
  <2>4. cReq'[w].at # "grant" /\ CallIsNamed(w)'
    BY <2>2, ClickValues DEF CallIsNamed
  <2>5. QED
    BY <2>2, <2>3, <2>4, OutsideStep
<1>7. ASSUME NEW w \in ClickWorkers, Click!ConfirmLock(w) PROVE CallsOK'
  <2>1. CASE row[cReq[w].row].state = Click!Confirmed
    <3>1. /\ UNCHANGED <<row, cRowLock>> /\ cReq[w].at # "grant" /\ cReq'[w] = Click!Idle
          /\ \A v \in ClickWorkers \ {w} : cReq'[v] = cReq[v]
      BY <1>7, <2>1, ClickEnds DEF Click!ConfirmLock
    <3>2. cReq'[w].at # "grant" /\ CallIsNamed(w)' /\ RowsKept(w)
      BY <3>1, ClickValues DEF CallIsNamed, RowsKept
    <3>3. QED
      BY <3>1, <3>2, OutsideStep
  <2>2. CASE row[cReq[w].row].state # Click!Confirmed
    <3> DEFINE r == cReq[w].row
    <3>1. /\ r \in Rows /\ cRowLock[r] = None /\ cReq[w].at = "confirm" /\ row' = row
          /\ cRowLock'[r] = w /\ \A s \in Rows \ {r} : cRowLock'[s] = cRowLock[s]
          /\ cReq'[w].at = "grant" /\ cReq'[w].row = r
          /\ cReq'[w].click = cReq[w].click /\ cReq'[w].pay = cReq[w].pay /\ cReq'[w].seen = cReq[w].seen
          /\ \A v \in ClickWorkers \ {w} : cReq'[v] = cReq[v]
      BY <1>0, <1>7, <2>2, ClickEnds DEF Click!ConfirmLock, CallIsNamed, Click!TypeOK
    <3> HIDE DEF r
    <3>2. RowHeld'
      <4> SUFFICES ASSUME NEW s \in Rows, cRowLock'[s] # None
                   PROVE  cReq'[cRowLock'[s]].at = "grant" /\ cReq'[cRowLock'[s]].row = s
        BY DEF RowHeld
      <4>1. CASE s = r
        BY <3>1, <4>1
      <4>2. CASE s # r
        <5>1. /\ cRowLock'[s] = cRowLock[s] /\ cRowLock[s] \in ClickWorkers
              /\ cReq[cRowLock[s]].at = "grant" /\ cReq[cRowLock[s]].row = s
          BY <3>1, <4>2 DEF CallsOK, RowHeld, Click!TypeOK
        <5>2. QED
          BY <3>1, <5>1
      <4>3. QED
        BY <4>1, <4>2
    <3>3. RowOwned'
      <4> SUFFICES ASSUME NEW v \in ClickWorkers, cReq'[v].at = "grant"
                   PROVE  cRowLock'[cReq'[v].row] = v /\ row'[cReq'[v].row].state # Click!Confirmed
        BY DEF RowOwned
      <4>1. CASE v = w
        BY <2>2, <3>1, <4>1 DEF r
      <4>2. CASE v # w
        <5>1. /\ cReq'[v] = cReq[v] /\ cReq[v].row \in Rows /\ cRowLock[cReq[v].row] = v
              /\ row[cReq[v].row].state # Click!Confirmed
          BY <3>1, <4>2 DEF CallsOK, CallNamed, RowOwned
        <5>2. cReq[v].row # r
          BY <3>1, <5>1 DEF ClickConstants
        <5>3. QED
          BY <3>1, <5>1, <5>2
      <4>3. QED
        BY <4>1, <4>2
    <3>4. CallNamed'
      <4> SUFFICES ASSUME NEW v \in ClickWorkers PROVE CallIsNamed(v)'
        BY DEF CallNamed, CallIsNamed
      <4>1. CASE v = w
        BY <1>0, <3>1, <4>1 DEF CallIsNamed, r
      <4>2. CASE v # w
        BY <1>0, <3>1, <4>2 DEF CallIsNamed
      <4>3. QED
        BY <4>1, <4>2
    <3>5. QED
      BY <3>2, <3>3, <3>4 DEF CallsOK
  <2>3. QED
    BY <2>1, <2>2
<1>8. ASSUME NEW w \in ClickWorkers, Click!ConfirmAndGrant(w) PROVE CallsOK'
  <2>1. cReq[w].row \in Rows /\ cRowLock[cReq[w].row] = w
    BY <1>0, <1>8 DEF Click!ConfirmAndGrant, CallIsNamed, CallsOK, RowOwned
  <2>2. RowsKept(w)
    BY <1>8, <2>1, ClickValues DEF Click!ConfirmAndGrant, RowsKept, Click!TypeOK
  <2>3. QED
    BY <1>8, <2>2, CallEnds DEF Click!ConfirmAndGrant
<1>9. ASSUME NEW w \in ClickWorkers, Click!Abort(w) PROVE CallsOK'
  BY <1>9, CallEnds DEF Click!Abort, RowsKept
<1>10. CASE UNCHANGED <<row, cRowLock, cReq>>
  BY <1>10 DEF CallsOK, RowHeld, RowOwned, CallNamed
<1>11. QED
  BY <1>1, <1>2, <1>3, <1>4, <1>5, <1>6, <1>7, <1>8, <1>9, <1>10
     DEF Click!Next, Click!PrepareStep, Click!CompleteStep, Click!VoidPayment, Click!vars

-----------------------------------------------------------------------------
(* Rows and orders.                                                        *)

HasConfirmed(p) == \E r \in Click!Of(p) : row[r].state = Click!Confirmed

\* A step that leaves the rows and the grants alone and makes no order paid.
LEMMA RowsUntouched ==
    ASSUME TableOK, OrdersOK, UNCHANGED <<row, cGrants>>,
           \A p \in Payments : cStatus'[p] = "paid" => cStatus[p] = "paid"
    PROVE  TableOK' /\ OrdersOK'
BY DEF TableOK, ClickRowNamed, RowVerdict, OneActiveRow, Click!Active, OrdersOK, Click!PaidHasConfirm,
   Click!OneGrantPerOrder, Click!Steady, Click!Of

\* A new row waits for its Complete and, thanks to the partial unique index,
\* is the only active one of its order.
LEMMA RowInserted ==
    ASSUME ClickConstants, Click!TypeOK, CallsOK, TableOK, OrdersOK, NEW w \in ClickWorkers, Click!PrepareInsert(w)
    PROVE  TableOK' /\ OrdersOK'
<1> DEFINE p == cReq[w].pay
           c == cReq[w].click
<1>1. CASE UNCHANGED row
  BY <1>1, RowsUntouched DEF Click!PrepareInsert
<1>2. CASE row' # row
  <2>1. PICK r \in Rows : /\ row[r].state = Click!NoRow
                          /\ row' = [row EXCEPT ![r] = [state |-> Click!Waiting, payment |-> p,
                                                        click |-> c]]
                          /\ Click!IndexAllows(None, p)
    BY <1>2 DEF Click!PrepareInsert
  <2>2. p \in Payments /\ c \in Click!ClickIds
    BY DEF Click!PrepareInsert, CallsOK, CallNamed
  <2>3. /\ row'[r].state = Click!Waiting /\ row'[r].payment = p /\ row'[r].click = c
        /\ \A s \in Rows \ {r} : row'[s] = row[s]
        /\ row[r].payment = None
        /\ UNCHANGED <<cStatus, cGrants>>
    BY <2>1 DEF Click!TypeOK, TableOK, ClickRowNamed, Click!PrepareInsert
  <2>4. \A s \in Rows : row[s].payment = p => ~Click!Active(s)
    BY <2>1, <2>2 DEF Click!IndexAllows, Click!Of, ClickConstants
  <2> HIDE DEF p, c
  <2>5. ClickRowNamed' /\ RowVerdict'
    BY <2>2, <2>3, ClickValues DEF TableOK, ClickRowNamed, RowVerdict, ClickConstants
  <2>6. OneActiveRow'
    BY <2>2, <2>3, <2>4 DEF TableOK, OneActiveRow, Click!Active
  <2>7. \A q \in Payments : HasConfirmed(q)' = HasConfirmed(q)
    BY <2>2, <2>3, ClickValues DEF HasConfirmed, Click!Of, ClickConstants
  <2>8. \A q \in Payments : Click!Steady(q)' => Click!Steady(q)
    BY <2>2, <2>3 DEF Click!Steady, Click!Of, ClickConstants
  <2>9. OrdersOK'
    BY <2>3, <2>7, <2>8 DEF OrdersOK, Click!PaidHasConfirm, Click!OneGrantPerOrder, HasConfirmed
  <2>10. QED
    BY <2>5, <2>6, <2>9 DEF TableOK
<1>3. QED
  BY <1>1, <1>2

\* Rejecting a row of a steady order takes no confirmation back: the row's
\* transaction is one that Click only declines.  Of any other order it takes
\* the paid status back too.
LEMMA RowRejected ==
    ASSUME ClickConstants, Click!TypeOK, CallsOK, TableOK, OrdersOK, NEW w \in ClickWorkers, Click!RejectTransaction(w)
    PROVE  /\ TableOK' /\ OrdersOK'
           /\ row[cReq[w].row].state = Click!Confirmed => row[cReq[w].row].click \in Click!Mixed
<1> DEFINE r == cReq[w].row
           p == cReq[w].pay
<1>1. /\ r \in Rows /\ p \in Payments /\ row[r].click \in Declining /\ row[r].payment = p
      /\ row[r].state # Click!NoRow
  BY DEF Click!RejectTransaction, CallsOK, CallNamed
<1>2. row[r].state = Click!Confirmed => row[r].click \in Click!Mixed
  BY <1>1 DEF TableOK, RowVerdict, Click!Mixed
<1>3. /\ row'[r].state = Click!Rejected
      /\ \A s \in Rows : row'[s].payment = row[s].payment /\ row'[s].click = row[s].click
      /\ \A s \in Rows \ {r} : row'[s] = row[s]
      /\ cGrants' = cGrants /\ cStatus'[p] = "canceled"
      /\ \A q \in Payments : cStatus'[q] = "paid" => cStatus[q] = "paid"
  BY <1>1 DEF Click!RejectTransaction, Click!TypeOK
<1> HIDE DEF r, p
<1>4. ClickRowNamed' /\ RowVerdict'
  BY <1>1, <1>3, ClickValues DEF TableOK, ClickRowNamed, RowVerdict
<1>5. OneActiveRow'
  BY <1>1, <1>3, ClickValues DEF TableOK, OneActiveRow, Click!Active
<1>6. \A q \in Payments : Click!Steady(q)' = Click!Steady(q)
  BY <1>3 DEF Click!Steady, Click!Of
<1>7. Click!Steady(p) => row[r].state # Click!Confirmed
  BY <1>1, <1>2 DEF Click!Steady, Click!Of
<1>8. \A q \in Payments : q # p \/ Click!Steady(q) => HasConfirmed(q)' = HasConfirmed(q)
  <2>1. ASSUME NEW q \in Payments, q # p PROVE HasConfirmed(q)' = HasConfirmed(q)
    BY <1>1, <1>3, <2>1 DEF HasConfirmed, Click!Of
  <2>2. ASSUME NEW q \in Payments, Click!Steady(p) PROVE HasConfirmed(q)' = HasConfirmed(q)
    <3>1. \A s \in Rows : row'[s].state = Click!Confirmed <=> row[s].state = Click!Confirmed
      BY <1>1, <1>3, <1>7, <2>2, ClickValues
    <3>2. \A s \in Rows : row'[s].payment = row[s].payment
      BY <1>3
    <3>3. Click!Of(q)' = Click!Of(q)
      BY <3>2 DEF Click!Of
    <3>4. \A s \in Click!Of(q) : s \in Rows
      BY DEF Click!Of
    <3>5. HasConfirmed(q)' <=> HasConfirmed(q)
      BY <3>1, <3>3, <3>4 DEF HasConfirmed
    <3>6. QED
      BY <3>5 DEF HasConfirmed
  <2>3. QED
    BY <2>1, <2>2
<1>9. Click!PaidHasConfirm'
  <2>1. ASSUME NEW q \in Payments, cStatus'[q] = "paid" PROVE HasConfirmed(q)'
    <3>1. q # p /\ cStatus[q] = "paid"
      BY <1>3, <2>1
    <3>2. HasConfirmed(q)
      BY <3>1 DEF OrdersOK, Click!PaidHasConfirm, HasConfirmed
    <3>3. QED
      BY <1>8, <3>1, <3>2
  <2>2. QED
    BY <2>1 DEF Click!PaidHasConfirm, HasConfirmed
<1>10. Click!OneGrantPerOrder'
  BY <1>3, <1>6, <1>8 DEF OrdersOK, Click!OneGrantPerOrder, HasConfirmed
<1>11. QED
  BY <1>2, <1>4, <1>5, <1>9, <1>10 DEF TableOK, OrdersOK, r

\* The grant: under the row lock the row is known not to be confirmed, and
\* by the index no other row of the order is, so the order was not granted.
LEMMA RowGranted ==
    ASSUME ClickConstants, Click!TypeOK, CallsOK, TableOK, OrdersOK, NEW w \in ClickWorkers, Click!ConfirmAndGrant(w)
    PROVE  TableOK' /\ OrdersOK'
<1> DEFINE r == cReq[w].row
           p == cReq[w].pay
<1>1. /\ r \in Rows /\ p \in Payments /\ row[r].payment = p /\ row[r].click \in Paying
      /\ row[r].state # Click!NoRow /\ row[r].state # Click!Confirmed
  BY DEF Click!ConfirmAndGrant, CallsOK, CallNamed, RowOwned
<1>2. CASE ~Click!IndexAllows(r, p)
  BY <1>2, RowsUntouched DEF Click!ConfirmAndGrant
<1>3. CASE Click!IndexAllows(r, p)
  <2>1. /\ row'[r].state = Click!Confirmed
        /\ \A s \in Rows : row'[s].payment = row[s].payment /\ row'[s].click = row[s].click
        /\ \A s \in Rows \ {r} : row'[s] = row[s]
        /\ cGrants'[p] = cGrants[p] + 1
        /\ \A q \in Payments \ {p} : cGrants'[q] = cGrants[q] /\ cStatus'[q] = cStatus[q]
    BY <1>1, <1>3 DEF Click!ConfirmAndGrant, Click!TypeOK
  <2>2. \A s \in Rows : row[s].payment = p /\ s # r => ~Click!Active(s)
    BY <1>3 DEF Click!IndexAllows, Click!Of
  <2>3. ~HasConfirmed(p)
    BY <1>1, <2>2 DEF HasConfirmed, Click!Of, Click!Active
  <2> HIDE DEF r, p
  <2>4. /\ Click!Steady(p) => cGrants[p] = 0
        /\ \A q \in Payments : cGrants[q] \in Nat /\ Click!Steady(q)' = Click!Steady(q)
    <3>1. \A q \in Payments : cGrants[q] \in Nat
      BY DEF Click!TypeOK
    <3>2. Click!Steady(p) => cGrants[p] <= 1 /\ (cGrants[p] = 1 <=> HasConfirmed(p))
      BY <1>1 DEF OrdersOK, Click!OneGrantPerOrder, HasConfirmed
    <3>3. \A q \in Payments : Click!Steady(q)' = Click!Steady(q)
      BY <2>1 DEF Click!Steady, Click!Of
    <3>4. QED
      BY <1>1, <2>3, <3>1, <3>2, <3>3
  <2>5. ClickRowNamed' /\ RowVerdict'
    BY <1>1, <2>1, ClickValues DEF TableOK, ClickRowNamed, RowVerdict
  <2>6. OneActiveRow'
    BY <1>1, <2>1, <2>2 DEF TableOK, OneActiveRow, Click!Active
  <2>7. \A q \in Payments : HasConfirmed(q)' <=> HasConfirmed(q) \/ q = p
    BY <1>1, <2>1 DEF HasConfirmed, Click!Of
  <2>8. OrdersOK'
    BY <1>1, <2>1, <2>4, <2>7 DEF OrdersOK, Click!PaidHasConfirm, Click!OneGrantPerOrder, HasConfirmed
  <2>9. QED
    BY <2>5, <2>6, <2>8 DEF TableOK
<1>4. QED
  BY <1>2, <1>3

\* Every step keeps the table and the orders consistent.
LEMMA OrdersStep ==
    ASSUME ClickConstants, Click!TypeOK, CallsOK, TableOK, OrdersOK, [Click!Next]_Click!vars
    PROVE  TableOK' /\ OrdersOK'
<1>1. ASSUME NEW w \in ClickWorkers, Click!PrepareInsert(w) PROVE TableOK' /\ OrdersOK'
  BY <1>1, RowInserted
<1>2. ASSUME NEW w \in ClickWorkers, Click!RejectTransaction(w) PROVE TableOK' /\ OrdersOK'
  BY <1>2, RowRejected
<1>3. ASSUME NEW w \in ClickWorkers, Click!ConfirmAndGrant(w) PROVE TableOK' /\ OrdersOK'
  BY <1>3, RowGranted
<1>4. ASSUME NEW w \in ClickWorkers, Click!PrepareMark(w) PROVE TableOK' /\ OrdersOK'
  BY <1>4, RowsUntouched DEF Click!PrepareMark, Click!TypeOK
<1>5. ASSUME NEW p \in Payments, Click!VoidPayment(p) PROVE TableOK' /\ OrdersOK'
  BY <1>5, RowsUntouched DEF Click!VoidPayment, Click!TypeOK
<1>6. CASE UNCHANGED <<row, cStatus, cGrants>>
  BY <1>6, RowsUntouched
<1>7. QED
  BY <1>1, <1>2, <1>3, <1>4, <1>5, <1>6
     DEF Click!Next, Click!PrepareStep, Click!CompleteStep, Click!Prepare, Click!PreparePayable, Click!PrepareLookup,
         Click!PrepareActive, Click!Complete, Click!CompleteStatus, Click!ConfirmLock, Click!Abort, Click!vars

-----------------------------------------------------------------------------
(* The theorems.                                                           *)

\* The initial state satisfies the inductive invariant.
LEMMA ClickStarts ==
    ASSUME ClickConstants, Click!Init
    PROVE  ClickIInv
<1>1. Click!TypeOK
  BY ClickValues DEF Click!Init, Click!TypeOK, Click!Status, ClickConstants, ClickCall
<1>2. CallsOK
  BY ClickValues DEF Click!Init, CallsOK, RowHeld, RowOwned, CallNamed
<1>3. TableOK
  BY ClickValues DEF Click!Init, TableOK, ClickRowNamed, RowVerdict, OneActiveRow, Click!Active
<1>4. OrdersOK
  BY ClickValues DEF Click!Init, OrdersOK, Click!PaidHasConfirm, Click!OneGrantPerOrder, Click!Of
<1>5. QED
  BY <1>1, <1>2, <1>3, <1>4 DEF ClickIInv

\* Every step keeps the inductive invariant.
LEMMA ClickSteps ==
    ASSUME ClickConstants, ClickIInv, [Click!Next]_Click!vars
    PROVE  ClickIInv'
<1>1. Click!TypeOK'
  BY ClickTypes DEF ClickIInv, CallsOK, TableOK
<1>2. CallsOK'
  BY CallsStep DEF ClickIInv, TableOK
<1>3. TableOK' /\ OrdersOK'
  BY OrdersStep DEF ClickIInv
<1>4. QED
  BY <1>1, <1>2, <1>3 DEF ClickIInv

\* A step changes the row of a confirmed or rejected transaction to something
\* else only if Click both pays and declines the transaction, and a rejected
\* one only for a request that had read the row before.
LEMMA VerdictStep ==
    ASSUME ClickConstants, ClickIInv, [Click!Next]_Click!vars, NEW r \in Rows, row[r].state \in {Click!Confirmed, Click!Rejected}
    PROVE  Click!VerdictKept(r)
<1>1. ASSUME NEW w \in ClickWorkers, Click!PrepareInsert(w) PROVE row'[r] = row[r]
  BY <1>1, ClickValues DEF Click!PrepareInsert, ClickIInv, Click!TypeOK
<1>2. ASSUME NEW w \in ClickWorkers, Click!RejectTransaction(w) PROVE Click!VerdictKept(r)
  <2>1. row[cReq[w].row].state = Click!Confirmed => row[cReq[w].row].click \in Click!Mixed
    BY <1>2, RowRejected DEF ClickIInv
  <2>2. row \in [Rows -> ClickRow]
    BY DEF ClickIInv, Click!TypeOK, ClickRow
  <2>3. row' = [row EXCEPT ![cReq[w].row].state = Click!Rejected]
    BY <1>2 DEF Click!RejectTransaction
  <2>4. CASE r = cReq[w].row /\ row[r].state = Click!Rejected
    <3>1. row'[r] = [row[r] EXCEPT !.state = Click!Rejected]
      BY <2>2, <2>3, <2>4
    <3>2. row'[r] = row[r]
      BY <2>2, <2>4, <3>1 DEF ClickRow
    <3>3. QED
      BY <3>2 DEF Click!VerdictKept
  <2>5. CASE r = cReq[w].row /\ row[r].state = Click!Confirmed
    BY <2>1, <2>5, ClickValues DEF Click!VerdictKept
  <2>6. CASE r # cReq[w].row
    BY <2>2, <2>3, <2>6 DEF Click!VerdictKept
  <2>7. QED
    BY <2>4, <2>5, <2>6
<1>3. ASSUME NEW w \in ClickWorkers, Click!ConfirmAndGrant(w) PROVE Click!VerdictKept(r)
  <2>1. /\ cReq[w].row \in Rows /\ row[cReq[w].row].click \in Paying /\ cReq[w].at = "grant"
        /\ row[cReq[w].row].state # Click!Confirmed /\ cReq[w].seen # Click!Rejected
    BY <1>3 DEF Click!ConfirmAndGrant, ClickIInv, CallsOK, CallNamed, RowOwned
  <2>2. row[r].state = Click!Rejected => row[r].click \in Declining
    BY DEF ClickIInv, TableOK, RowVerdict
  <2>3. CASE r = cReq[w].row
    BY <2>1, <2>2, <2>3 DEF Click!VerdictKept, Click!Mixed, Click!Overtaken
  <2>4. CASE r # cReq[w].row
    BY <1>3, <2>1, <2>4 DEF Click!ConfirmAndGrant, ClickIInv, Click!TypeOK, Click!VerdictKept
  <2>5. QED
    BY <2>3, <2>4
<1>4. CASE row'[r] = row[r]
  BY <1>4 DEF Click!VerdictKept
<1>5. CASE UNCHANGED row
  BY <1>4, <1>5
<1>6. QED
  BY <1>1, <1>2, <1>3, <1>4, <1>5
     DEF Click!Next, Click!PrepareStep, Click!CompleteStep, Click!Prepare, Click!PreparePayable, Click!PrepareLookup,
         Click!PrepareActive, Click!PrepareMark, Click!Complete, Click!CompleteStatus, Click!ConfirmLock, Click!Abort,
         Click!VoidPayment, Click!vars

\* The inductive invariant holds in every reachable state of the Click webhook.
LEMMA ClickInvariance ==
    ASSUME ClickConstants
    PROVE  Click!Spec => []ClickIInv
<1>1. Click!Init => ClickIInv
  BY ClickStarts
<1>2. ClickIInv /\ [Click!Next]_Click!vars => ClickIInv'
  BY ClickSteps
<1>3. QED
  BY <1>1, <1>2, PTL DEF Click!Spec

\* However Prepares and Completes overlap, are retried or die: a paid order
\* has a confirmed row; an order none of whose transactions Click both pays and
\* declines is granted at most once and exactly when one of its rows is
\* confirmed; a confirmed or rejected row keeps its verdict except for such a
\* transaction, and then too a rejected one is confirmed only by a request that
\* read it before (confirmAndGrant, rejectTransaction).
THEOREM ClickSafeThm ==
    ASSUME ClickConstants
    PROVE  Click!Spec => ClickSafe
<1>1. ClickIInv => Click!ClickInv
  BY DEF ClickIInv, Click!ClickInv, OrdersOK
<1>2. ClickIInv /\ [Click!Next]_Click!vars =>
         [\A r \in Rows : row[r].state \in {Click!Confirmed, Click!Rejected} => Click!VerdictKept(r)]_Click!vars
  BY VerdictStep
<1>3. QED
  BY <1>1, <1>2, ClickInvariance, PTL DEF Click!Spec, ClickSafe, Click!VerdictIsFinal

-----------------------------------------------------------------------------
(***************************************************************************)
(* The relay that brings the pushes (HumoWatcher), for any number of        *)
(* messages, of requests at work and of faults.                             *)
(*                                                                         *)
(* HumoInv counts what is over; the invariant counts what is under way: a   *)
(* message has no event yet, or one, and then one request may be on its way *)
(* to the match (Matching), and a drain about to delete a message has the   *)
(* answer of a request that found or made its event (AckKnows).             *)
(***************************************************************************)
RelayConstants == None \notin Msgs \cup Calls /\ MaxFaults \in Nat

DrainRow == [at : {"idle", "wait", "ack"}, msg : Msgs \cup {None}, call : Calls \cup {None}]
CallRow == [at : {"free", "lookup", "insert", "match"}, msg : Msgs \cup {None}]

\* A request at work has a message, and the drain waits for one of its own.
Busy ==
    /\ \A k \in Calls : call[k].at # "free" => call[k].msg \in Msgs
    /\ drain.at # "idle" => drain.msg \in Msgs
    /\ drain.at = "wait" => drain.call \in Calls /\ call[drain.call].at # "free"
                            /\ call[drain.call].msg = drain.msg

\* A request past its insert made the one event of its message, and nobody
\* else is or was there.
AtMatch(k, m) == call[k].at = "match" /\ call[k].msg = m
Matching ==
    /\ \A m \in Msgs : events[m] <= 1 /\ matches[m] <= events[m]
    /\ \A k \in Calls, m \in Msgs : AtMatch(k, m) => events[m] = 1 /\ matches[m] = 0
    /\ \A k, l \in Calls, m \in Msgs : AtMatch(k, m) /\ AtMatch(l, m) => k = l

AckKnows == drain.at = "ack" => events[drain.msg] > 0

RelayIInv == Humo!TypeOK /\ Busy /\ Matching /\ AckKnows /\ Humo!AckedIsRecorded

LEMMA DeletedType ==
    ASSUME NEW s \in Seq(Msgs), NEW m
    PROVE  Humo!Deleted(s, m) \in Seq(Msgs)
<1>1. \A i \in 1..Len(s) : Humo!RemoveAt(s, i) \in Seq(Msgs)
  BY DEF Humo!RemoveAt
<1>2. CASE \E i \in 1..Len(s) : s[i] = m
  <2>1. (CHOOSE i \in 1..Len(s) : s[i] = m) \in 1..Len(s)
    BY <1>2
  <2>2. QED
    BY <1>1, <1>2, <2>1 DEF Humo!Deleted, Humo!Contains
<1>3. CASE ~\E i \in 1..Len(s) : s[i] = m
  BY <1>3 DEF Humo!Deleted, Humo!Contains
<1>4. QED
  BY <1>2, <1>3

\* The API's answer.
LEMMA Replied ==
    ASSUME RelayConstants, RelayIInv, NEW k \in Calls, call[k].at # "free", NEW ok \in BOOLEAN,
           Humo!Reply(k, ok), ok => events'[call[k].msg] > 0, events' \in [Msgs -> Nat],
           \A m \in Msgs : events[m] <= events'[m],
           \/ UNCHANGED <<events, matches>>
           \/ /\ call[k].at = "match" /\ events' = events
              /\ matches' = [matches EXCEPT ![call[k].msg] = @ + 1],
           UNCHANGED <<up, told, spool, acked>>, faults' \in 0..MaxFaults
    PROVE  RelayIInv'
<1>1. /\ Humo!TypeOK /\ Busy /\ Matching /\ AckKnows /\ Humo!AckedIsRecorded
      /\ call \in [Calls -> CallRow] /\ drain \in DrainRow /\ call[k].msg \in Msgs
  BY DEF RelayIInv, Humo!TypeOK, CallRow, DrainRow, Busy
<1> DEFINE n == [at |-> "free", msg |-> None]
           z == [at |-> "idle", msg |-> None, call |-> None]
           a == [drain EXCEPT !.at = "ack"]
<1>2. n \in CallRow /\ n.at = "free" /\ z \in DrainRow /\ z.at = "idle"
  BY DEF CallRow, DrainRow
<1>3. a \in DrainRow /\ a.at = "ack" /\ a.msg = drain.msg
  BY <1>1 DEF DrainRow
<1>4. /\ call' = [call EXCEPT ![k] = n]
      /\ \/ drain.call = k /\ drain.at = "wait" /\ ok /\ drain' = a
         \/ drain.call = k /\ drain.at = "wait" /\ drain' = z
         \/ ~(drain.call = k /\ drain.at = "wait") /\ drain' = drain
  BY DEF Humo!Reply, Humo!NoCall, Humo!NoDrain
<1> HIDE DEF n, z, a
<1>5. /\ call' \in [Calls -> CallRow] /\ call'[k] = n
      /\ \A l \in Calls \ {k} : call'[l] = call[l]
  BY <1>1, <1>2, <1>4
<1>6. drain' \in DrainRow
  BY <1>1, <1>2, <1>3, <1>4
<1>7. matches' \in [Msgs -> Nat]
  <2>1. matches \in [Msgs -> Nat]
    BY <1>1 DEF Humo!TypeOK
  <2>2. QED
    BY <1>1, <2>1
<1>8. Humo!TypeOK'
  BY <1>1, <1>5, <1>6, <1>7 DEF Humo!TypeOK, CallRow, DrainRow
<1>9. Busy'
  <2>1. \A l \in Calls : call'[l].at # "free" => call'[l].msg \in Msgs
    BY <1>1, <1>2, <1>5 DEF Busy
  <2>2. drain'.at # "idle" => drain'.msg \in Msgs
    BY <1>1, <1>2, <1>3, <1>4 DEF Busy
  <2>3. drain'.at = "wait" => /\ drain'.call \in Calls /\ call'[drain'.call].at # "free"
                              /\ call'[drain'.call].msg = drain'.msg
    BY <1>1, <1>2, <1>3, <1>4, <1>5 DEF Busy
  <2>4. QED
    BY <2>1, <2>2, <2>3 DEF Busy
<1>10. Matching'
  <2>1. \A l \in Calls, m \in Msgs : AtMatch(l, m)' => l # k /\ AtMatch(l, m)
    BY <1>2, <1>5 DEF AtMatch
  <2>2. CASE UNCHANGED <<events, matches>>
    BY <1>1, <2>1, <2>2 DEF Matching
  <2>3. CASE call[k].at = "match" /\ events' = events
             /\ matches' = [matches EXCEPT ![call[k].msg] = @ + 1]
    <3> DEFINE c == call[k].msg
    <3>1. c \in Msgs /\ AtMatch(k, c)
      BY <1>1, <2>3 DEF AtMatch
    <3> HIDE DEF c
    <3>2. matches'[c] = 1 /\ events[c] = 1 /\ \A m \in Msgs \ {c} : matches'[m] = matches[m]
      <4>1. matches' = [matches EXCEPT ![c] = @ + 1]
        BY <2>3 DEF c
      <4>2. QED
        BY <1>1, <3>1, <4>1 DEF Matching, Humo!TypeOK
    <3>3. \A l \in Calls, m \in Msgs : AtMatch(l, m)' => m # c
      BY <1>1, <2>1, <3>1 DEF Matching
    <3>4. \A m \in Msgs : events'[m] <= 1 /\ matches'[m] <= events'[m]
      BY <1>1, <2>3, <3>2 DEF Matching
    <3>5. QED
      BY <1>1, <2>1, <2>3, <3>2, <3>3, <3>4 DEF Matching
  <2>4. QED
    BY <2>2, <2>3
<1>11. AckKnows'
  <2>1. events \in [Msgs -> Nat]
    BY <1>1 DEF Humo!TypeOK
  <2>2. CASE drain.call = k /\ drain.at = "wait" /\ ok /\ drain' = a
    BY <1>1, <1>3, <2>2 DEF Busy, AckKnows
  <2>3. CASE drain' = z
    BY <1>2, <2>3 DEF AckKnows
  <2>4. CASE drain' = drain
    <3>1. ASSUME drain.at = "ack" PROVE events'[drain.msg] > 0
      <4>1. drain.msg \in Msgs /\ events[drain.msg] > 0
        BY <1>1, <3>1 DEF Busy, AckKnows
      <4>2. QED
        BY <2>1, <4>1
    <3>2. QED
      BY <2>4, <3>1 DEF AckKnows
  <2>5. QED
    BY <1>4, <2>2, <2>3, <2>4
<1>12. Humo!AckedIsRecorded'
  <2>1. \A m \in Msgs : events[m] \in Nat /\ events'[m] \in Nat
    BY <1>1 DEF Humo!TypeOK
  <2>2. QED
    BY <1>1, <2>1 DEF Humo!AckedIsRecorded, Humo!TypeOK
<1>13. QED
  BY <1>8, <1>9, <1>10, <1>11, <1>12 DEF RelayIInv

\* A step of the watcher: the API is not touched, and the drain goes on or
\* stops.
LEMMA WatcherStep ==
    ASSUME RelayConstants, RelayIInv, UNCHANGED Humo!api, drain' \in {drain, Humo!NoDrain},
           up' \in BOOLEAN, told' \subseteq Msgs, spool' \in Seq(Msgs), faults' \in 0..MaxFaults,
           acked' = acked \/ (drain.at = "ack" /\ acked' = acked \cup {drain.msg})
    PROVE  RelayIInv'
<1>1. /\ Humo!TypeOK /\ Busy /\ Matching /\ AckKnows /\ Humo!AckedIsRecorded
      /\ UNCHANGED <<call, events, matches>>
  BY DEF RelayIInv, Humo!api
<1> DEFINE z == Humo!NoDrain
<1>2. z \in DrainRow /\ z.at = "idle"
  BY DEF DrainRow, Humo!NoDrain
<1> HIDE DEF z
<1>3. drain' = drain \/ drain' = z
  BY DEF z
<1>4. acked' \subseteq Msgs /\ \A m \in acked' : events[m] > 0
  BY <1>1 DEF Busy, AckKnows, Humo!TypeOK, Humo!AckedIsRecorded
<1>5. Humo!TypeOK'
  BY <1>1, <1>2, <1>3, <1>4 DEF Humo!TypeOK, DrainRow
<1>6. Busy' /\ AckKnows'
  BY <1>1, <1>2, <1>3 DEF Busy, AckKnows
<1>7. Matching' /\ Humo!AckedIsRecorded'
  BY <1>1, <1>4 DEF Matching, AtMatch, Humo!AckedIsRecorded
<1>8. QED
  BY <1>5, <1>6, <1>7 DEF RelayIInv

\* The watcher posts the oldest message of the spool.
LEMMA PostKeeps ==
    ASSUME RelayConstants, RelayIInv, NEW k \in Calls, Humo!Post(k)
    PROVE  RelayIInv'
<1>1. /\ Humo!TypeOK /\ Busy /\ Matching /\ AckKnows /\ Humo!AckedIsRecorded
      /\ call \in [Calls -> CallRow]
  BY DEF RelayIInv, Humo!TypeOK, CallRow
<1> DEFINE m == Head(spool)
           n == [at |-> "lookup", msg |-> m]
           w == [at |-> "wait", msg |-> m, call |-> k]
<1>2. /\ drain.at = "idle" /\ spool # <<>> /\ call[k].at = "free" /\ drain' = w
      /\ call' = [call EXCEPT ![k] = n] /\ UNCHANGED <<up, told, spool, events, matches, acked, faults>>
  BY DEF Humo!Post
<1>3. m \in Msgs
  BY <1>1, <1>2 DEF Humo!TypeOK
<1> HIDE DEF m
<1>4. /\ n \in CallRow /\ n.at = "lookup" /\ n.msg = m
      /\ w \in DrainRow /\ w.at = "wait" /\ w.msg = m /\ w.call = k
  BY <1>3 DEF CallRow, DrainRow
<1> HIDE DEF n, w
<1>5. /\ call' \in [Calls -> CallRow] /\ call'[k] = n
      /\ \A l \in Calls \ {k} : call'[l] = call[l]
  BY <1>1, <1>2, <1>4
<1>6. Humo!TypeOK'
  BY <1>1, <1>2, <1>4, <1>5 DEF Humo!TypeOK, CallRow, DrainRow
<1>7. Busy' /\ AckKnows'
  BY <1>1, <1>2, <1>3, <1>4, <1>5 DEF Busy, AckKnows
<1>8. \A l \in Calls, x \in Msgs : AtMatch(l, x)' => AtMatch(l, x)
  BY <1>4, <1>5 DEF AtMatch
<1>9. Matching' /\ Humo!AckedIsRecorded'
  BY <1>1, <1>2, <1>8 DEF Matching, Humo!AckedIsRecorded
<1>10. QED
  BY <1>6, <1>7, <1>9 DEF RelayIInv

\* The lookup finds no event, or the insert makes it.
LEMMA RequestStep ==
    ASSUME RelayConstants, RelayIInv, NEW k \in Calls, UNCHANGED <<up, told, spool, drain, matches, acked, faults>>,
           \/ /\ call[k].at = "lookup" /\ call' = [call EXCEPT ![k].at = "insert"]
              /\ UNCHANGED events
           \/ /\ call[k].at = "insert" /\ ~(events[call[k].msg] > 0)
              /\ call' = [call EXCEPT ![k].at = "match"]
              /\ events' = [events EXCEPT ![call[k].msg] = @ + 1]
    PROVE  RelayIInv'
<1>1. /\ Humo!TypeOK /\ Busy /\ Matching /\ AckKnows /\ Humo!AckedIsRecorded
      /\ call \in [Calls -> CallRow] /\ events \in [Msgs -> Nat] /\ matches \in [Msgs -> Nat]
  BY DEF RelayIInv, Humo!TypeOK, CallRow
<1> DEFINE m == call[k].msg
<1>2. m \in Msgs /\ call[k] \in CallRow
  BY <1>1 DEF Busy
<1>3. PICK at \in {"insert", "match"} :
        /\ call' = [call EXCEPT ![k].at = at] /\ call[k].at \in {"lookup", "insert"}
        /\ at = "insert" => events' = events
        /\ at = "match" => events[m] = 0 /\ events' = [events EXCEPT ![m] = @ + 1]
  BY <1>1, <1>2
<1> DEFINE n == [call[k] EXCEPT !.at = at]
<1>4. call' = [call EXCEPT ![k] = n]
  BY <1>3
<1>5. n \in CallRow /\ n.at = at /\ n.msg = m
  BY <1>2 DEF CallRow
<1> HIDE DEF m, n
<1>6. /\ call' \in [Calls -> CallRow] /\ call'[k] = n
      /\ \A l \in Calls \ {k} : call'[l] = call[l]
  BY <1>1, <1>4, <1>5
<1>7. /\ events' \in [Msgs -> Nat] /\ \A x \in Msgs \ {m} : events'[x] = events[x]
      /\ events'[m] >= events[m] /\ (at = "match" => events'[m] = 1)
  BY <1>1, <1>2, <1>3
<1>8. Humo!TypeOK'
  BY <1>1, <1>6, <1>7 DEF Humo!TypeOK, CallRow
<1>9. Busy'
  <2>1. call[k].msg = m
    BY DEF m
  <2>2. QED
    BY <1>1, <1>2, <1>3, <1>5, <1>6, <2>1 DEF Busy
<1>10. \A x \in Msgs : events[x] > 0 => events'[x] > 0
  BY <1>1, <1>7
<1>11. AckKnows' /\ Humo!AckedIsRecorded'
  BY <1>1, <1>10 DEF AckKnows, Busy, Humo!AckedIsRecorded, Humo!TypeOK
<1>12. Matching'
  <2>1. CASE at = "insert"
    <3>1. \A l \in Calls, x \in Msgs : AtMatch(l, x)' => AtMatch(l, x)
      BY <1>5, <1>6, <2>1 DEF AtMatch
    <3>2. QED
      BY <1>1, <1>3, <2>1, <3>1 DEF Matching
  <2>2. CASE at = "match"
    <3>1. events[m] = 0 /\ matches[m] = 0
      BY <1>1, <1>2, <1>3, <2>2 DEF Matching
    <3>2. \A l \in Calls, x \in Msgs : AtMatch(l, x)' => IF l = k THEN x = m ELSE AtMatch(l, x) /\ x # m
      BY <1>1, <1>5, <1>6, <3>1 DEF AtMatch, Matching
    <3>3. \A x \in Msgs : events'[x] <= 1 /\ matches'[x] <= events'[x]
      BY <1>1, <1>7, <2>2, <3>1 DEF Matching
    <3>4. \A l \in Calls, x \in Msgs : AtMatch(l, x)' => events'[x] = 1 /\ matches'[x] = 0
      BY <1>1, <1>7, <2>2, <3>1, <3>2 DEF Matching
    <3>5. \A l, j \in Calls, x \in Msgs : AtMatch(l, x)' /\ AtMatch(j, x)' => l = j
      BY <1>1, <3>2 DEF Matching
    <3>6. QED
      BY <3>3, <3>4, <3>5 DEF Matching
  <2>3. QED
    BY <1>3, <2>1, <2>2
<1>13. QED
  BY <1>8, <1>9, <1>11, <1>12 DEF RelayIInv

LEMMA RelayStep ==
    ASSUME RelayConstants, RelayIInv, [Humo!Next]_Humo!vars
    PROVE  RelayIInv'
<1>1. /\ up \in BOOLEAN /\ told \subseteq Msgs /\ spool \in Seq(Msgs) /\ faults \in 0..MaxFaults
      /\ events \in [Msgs -> Nat] /\ MaxFaults \in Nat /\ Busy
      /\ \A m \in Msgs : events[m] <= events[m]
  BY DEF RelayIInv, Humo!TypeOK, RelayConstants
<1>2. faults < MaxFaults /\ faults' = faults + 1 => faults' \in 0..MaxFaults
  BY <1>1
<1>3. ASSUME NEW m \in Msgs, Humo!Put(m) \/ Humo!Missed(m) PROVE RelayIInv'
  <2>1. UNCHANGED Humo!api /\ drain' \in {drain, Humo!NoDrain} /\ acked' = acked
    BY <1>3 DEF Humo!Put, Humo!Missed
  <2>2. up' \in BOOLEAN /\ told' \subseteq Msgs /\ faults' \in 0..MaxFaults
    BY <1>1, <1>2, <1>3 DEF Humo!Put, Humo!Missed
  <2>3. spool' \in Seq(Msgs)
    BY <1>1, <1>3 DEF Humo!Put, Humo!Missed
  <2>4. QED
    BY <2>1, <2>2, <2>3, WatcherStep
<1>4. CASE Humo!Timeout \/ Humo!Crash \/ Humo!Restart \/ Humo!Ack
  <2>1. /\ UNCHANGED Humo!api /\ drain' \in {drain, Humo!NoDrain} /\ told' = told
        /\ acked' = acked \/ (drain.at = "ack" /\ acked' = acked \cup {drain.msg})
        /\ spool' = spool \/ spool' = Humo!Deleted(spool, drain.msg)
    BY <1>4 DEF Humo!Timeout, Humo!Crash, Humo!Restart, Humo!Ack
  <2>2. up' \in BOOLEAN /\ faults' \in 0..MaxFaults
    BY <1>1, <1>2, <1>4 DEF Humo!Timeout, Humo!Crash, Humo!Restart, Humo!Ack
  <2>3. spool' \in Seq(Msgs)
    BY <1>1, <2>1, DeletedType
  <2>4. QED
    BY <1>1, <2>1, <2>2, <2>3, WatcherStep
<1>5. ASSUME NEW k \in Calls, Humo!ApiLookup(k) PROVE RelayIInv'
  <2>1. call[k].at = "lookup" /\ UNCHANGED <<up, told, spool, events, matches, acked, faults>>
    BY <1>5 DEF Humo!ApiLookup
  <2>2. CASE events[call[k].msg] > 0 /\ Humo!Reply(k, TRUE)
    BY <1>1, <2>1, <2>2, Replied
  <2>3. CASE call' = [call EXCEPT ![k].at = "insert"] /\ UNCHANGED drain
    BY <2>1, <2>3, RequestStep
  <2>4. QED
    BY <1>5, <2>2, <2>3 DEF Humo!ApiLookup
<1>6. ASSUME NEW k \in Calls, Humo!ApiInsert(k) PROVE RelayIInv'
  <2>1. call[k].at = "insert" /\ UNCHANGED <<up, told, spool, matches, acked, faults>>
    BY <1>6 DEF Humo!ApiInsert
  <2>2. CASE events[call[k].msg] > 0 /\ Humo!Reply(k, TRUE) /\ UNCHANGED events
    BY <1>1, <2>1, <2>2, Replied
  <2>3. CASE /\ ~(events[call[k].msg] > 0) /\ UNCHANGED drain
             /\ events' = [events EXCEPT ![call[k].msg] = @ + 1]
             /\ call' = [call EXCEPT ![k].at = "match"]
    BY <2>1, <2>3, RequestStep
  <2>4. QED
    BY <1>6, <2>2, <2>3 DEF Humo!ApiInsert
<1>7. ASSUME NEW k \in Calls, Humo!ApiMatch(k) PROVE RelayIInv'
  <2>1. /\ call[k].at = "match" /\ Humo!Reply(k, TRUE)
        /\ matches' = [matches EXCEPT ![call[k].msg] = @ + 1]
        /\ UNCHANGED <<up, told, spool, events, acked, faults>>
    BY <1>7 DEF Humo!ApiMatch
  <2>2. events[call[k].msg] > 0
    <3>1. call[k].msg \in Msgs /\ AtMatch(k, call[k].msg)
      BY <1>1, <2>1 DEF Busy, AtMatch
    <3>2. events[call[k].msg] = 1
      BY <3>1 DEF RelayIInv, Matching
    <3>3. QED
      BY <3>2
  <2>3. QED
    BY <1>1, <2>1, <2>2, Replied
<1>8. ASSUME NEW k \in Calls, Humo!ApiFail(k) PROVE RelayIInv'
  <2>1. /\ call[k].at # "free" /\ faults < MaxFaults /\ faults' = faults + 1 /\ Humo!Reply(k, FALSE)
        /\ UNCHANGED <<up, told, spool, events, matches, acked>>
    BY <1>8 DEF Humo!ApiFail
  <2>2. QED
    BY <1>1, <1>2, <2>1, Replied
<1>9. CASE UNCHANGED Humo!vars
  <2>1. /\ UNCHANGED Humo!api /\ drain' = drain /\ acked' = acked
        /\ UNCHANGED <<up, told, spool, faults>>
    BY <1>9 DEF Humo!vars, Humo!api
  <2>2. QED
    BY <1>1, <2>1, WatcherStep
<1>10. QED
  BY <1>3, <1>4, <1>5, <1>6, <1>7, <1>8, <1>9, PostKeeps DEF Humo!Next

\* However the watcher crashes, times out and posts again while requests of
\* its earlier posts are still at work: a message leaves the spool only when
\* the API has its event, it has one event at most, and the matching that
\* grants days ran to its end at most once (drain_spool, IngestHumoPush).
THEOREM HumoThm ==
    ASSUME RelayConstants
    PROVE  Humo!Spec => []HumoInv
<1>1. Humo!Init => RelayIInv
  <2> SUFFICES ASSUME Humo!Init PROVE RelayIInv
    OBVIOUS
  <2> DEFINE n == Humo!NoCall
             z == Humo!NoDrain
  <2>1. n \in CallRow /\ n.at = "free" /\ z \in DrainRow /\ z.at = "idle"
    BY DEF CallRow, DrainRow, Humo!NoCall, Humo!NoDrain
  <2>2. /\ up = TRUE /\ told = {} /\ spool = <<>> /\ drain = z /\ call = [k \in Calls |-> n]
        /\ events = [m \in Msgs |-> 0] /\ matches = [m \in Msgs |-> 0] /\ acked = {} /\ faults = 0
    BY DEF Humo!Init
  <2> HIDE DEF n, z
  <2>3. call \in [Calls -> CallRow] /\ \A k \in Calls : call[k] = n
    BY <2>1, <2>2
  <2>4. /\ events \in [Msgs -> Nat] /\ matches \in [Msgs -> Nat]
        /\ \A m \in Msgs : events[m] = 0 /\ matches[m] = 0
    BY <2>2
  <2>5. up \in BOOLEAN /\ told \subseteq Msgs /\ acked \subseteq Msgs
    BY <2>2, Zenon
  <2>6. spool \in Seq(Msgs) /\ faults \in 0..MaxFaults /\ drain \in DrainRow
    BY <2>1, <2>2 DEF RelayConstants
  <2>7. Humo!TypeOK
    BY <2>3, <2>4, <2>5, <2>6 DEF Humo!TypeOK, CallRow, DrainRow
  <2>8. Busy /\ AckKnows /\ Matching /\ Humo!AckedIsRecorded
    BY <2>1, <2>2, <2>3, <2>4 DEF Busy, AckKnows, Matching, AtMatch, Humo!AckedIsRecorded
  <2>9. QED
    BY <2>7, <2>8 DEF RelayIInv
<1>2. RelayIInv /\ [Humo!Next]_Humo!vars => RelayIInv'
  BY RelayStep
<1>3. RelayIInv => HumoInv
  BY DEF RelayIInv, HumoInv, Matching, Humo!HumoInv, Humo!IngestedOnce
<1>4. QED
  BY <1>1, <1>2, <1>3, PTL DEF Humo!Spec

-----------------------------------------------------------------------------
(***************************************************************************)
(* The racing registrations (SignUp), for any number of requests and codes  *)
(* and any limits.                                                          *)
(*                                                                         *)
(* SignUpInv speaks of what is committed; the invariant adds who is about   *)
(* to commit (the one request that holds the phone, on a path with a name), *)
(* who may sign in (only into a profile that exists), and counts with the   *)
(* attempts on a code the guesses that are still being compared (Guesses).  *)
(***************************************************************************)
SignUpConstants == IsFiniteSet(Requests) /\ "nobody" \notin Requests /\ MaxAttempts \in Nat \ {0}

Paths == {"otp", "register", "telegram"}
JobRow == [pc : {"idle", "compare", "lookup", "insert", "commit", "session"},
           path : Paths \cup {"none"}, code : Nat]
CodeRow == [attempts : Nat, consumed : BOOLEAN, expired : BOOLEAN]

JobsOK(f) ==
    /\ f \in [Requests -> JobRow]
    /\ \A r \in Requests : f[r].pc # "idle" => f[r].path # "none"

\* The row of the phone, and the requests that know of it.
Store(p, c, t, f, s, j) ==
    /\ p \in Paths \cup {"none"} /\ c \in Requests \cup {"nobody"}
    /\ t = (IF p = "none" THEN 0 ELSE 1)
    /\ f \in 0..1 /\ (f = 1 => p = "telegram")
    /\ s \in Nat /\ (s > 0 => p # "none")
    /\ c # "nobody" => p = "none"
    /\ \A r \in Requests : /\ j[r].pc = "commit" <=> c = r
                           /\ j[r].pc = "session" => p # "none"

\* The guesses at code i that are being compared.
Comparing(j, i) == {r \in Requests : j[r].pc = "compare" /\ j[r].code = i}
Guesses(c, j) ==
    /\ c \in Seq(CodeRow)
    /\ \A r \in Requests : j[r].pc = "compare" => j[r].code \in 1..Len(c)
    /\ \A i \in 1..Len(c) :
          c[i].attempts + Cardinality(Comparing(j, i)) < MaxAttempts + Cardinality(Requests)

SignUpIInv ==
    JobsOK(job) /\ Store(profile, claimed, trials, referrals, sessions, job) /\ Guesses(codes, job)

LEMMA ComparingFinite ==
    ASSUME SignUpConstants, NEW j, NEW i
    PROVE  /\ IsFiniteSet(Comparing(j, i)) /\ Cardinality(Comparing(j, i)) \in Nat
           /\ Cardinality(Requests) \in Nat
           /\ Cardinality(Comparing(j, i)) <= Cardinality(Requests)
<1>1. Comparing(j, i) \subseteq Requests /\ IsFiniteSet(Requests)
  BY DEF Comparing, SignUpConstants
<1>2. IsFiniteSet(Comparing(j, i)) /\ Cardinality(Comparing(j, i)) <= Cardinality(Requests)
  BY <1>1, FS_Subset
<1>3. QED
  BY <1>1, <1>2, FS_CardinalityType

\* A request that is not left comparing takes no guess from the count.
LEMMA GuessesKept ==
    ASSUME SignUpConstants, NEW c, NEW d \in Seq(CodeRow), NEW j, NEW k, Guesses(c, j),
           Len(d) = Len(c), \A i \in 1..Len(c) : d[i].attempts = c[i].attempts,
           \A r \in Requests : k[r].pc = "compare" => k[r].pc = j[r].pc /\ k[r].code = j[r].code
    PROVE  Guesses(d, k)
<1>1. \A r \in Requests : k[r].pc = "compare" => k[r].code \in 1..Len(d)
  BY DEF Guesses
<1>2. ASSUME NEW i \in 1..Len(d)
      PROVE  d[i].attempts + Cardinality(Comparing(k, i)) < MaxAttempts + Cardinality(Requests)
  <2>1. Comparing(k, i) \subseteq Comparing(j, i)
    BY DEF Comparing
  <2>2. Cardinality(Comparing(k, i)) <= Cardinality(Comparing(j, i))
    BY <2>1, ComparingFinite, FS_Subset
  <2>3. /\ Cardinality(Comparing(k, i)) \in Nat /\ Cardinality(Comparing(j, i)) \in Nat
        /\ Cardinality(Requests) \in Nat /\ MaxAttempts \in Nat
    BY ComparingFinite DEF SignUpConstants
  <2>4. c[i] \in CodeRow
    BY DEF Guesses
  <2>5. c[i].attempts \in Nat /\ d[i].attempts = c[i].attempts
    BY <2>4 DEF CodeRow
  <2>6. c[i].attempts + Cardinality(Comparing(j, i)) < MaxAttempts + Cardinality(Requests)
    BY DEF Guesses
  <2>7. QED
    BY <2>2, <2>3, <2>5, <2>6
<1>3. QED
  BY <1>1, <1>2 DEF Guesses

LEMMA JobMoved ==
    ASSUME JobsOK(job), NEW r \in Requests, NEW n \in JobRow, n.pc # "idle" => n.path # "none",
           job' = [job EXCEPT ![r] = n]
    PROVE  /\ JobsOK(job') /\ job'[r] = n
           /\ \A q \in Requests \ {r} : job'[q] = job[q]
  BY DEF JobsOK

\* A request that moves on, and touches no code.
LEMMA JobStep ==
    ASSUME SignUpConstants, SignUpIInv, NEW r \in Requests, NEW n \in JobRow,
           n.pc # "idle" => n.path # "none", job' = [job EXCEPT ![r] = n],
           n.pc # "compare", codes' = codes,
           Store(profile', claimed', trials', referrals', sessions', job')
    PROVE  SignUpIInv'
<1>1. JobsOK(job') /\ job'[r] = n /\ \A q \in Requests \ {r} : job'[q] = job[q]
  BY JobMoved DEF SignUpIInv
<1>2. codes \in Seq(CodeRow)
  BY DEF SignUpIInv, Guesses
<1>3. Guesses(codes, job')
  <2>1. \A q \in Requests : job'[q].pc = "compare" =>
            job'[q].pc = job[q].pc /\ job'[q].code = job[q].code
    BY <1>1
  <2>2. Guesses(codes, job)
    BY DEF SignUpIInv
  <2>3. ASSUME NEW k, \A q \in Requests : k[q].pc = "compare" => k[q].pc = job[q].pc /\ k[q].code = job[q].code
        PROVE  Guesses(codes, k)
    BY <1>2, <2>2, <2>3, GuessesKept, SMT
  <2>4. QED
    BY <2>1, <2>3
<1>4. QED
  BY <1>1, <1>3 DEF SignUpIInv

\* A step inside the transaction that does not change the row of the phone.
LEMMA StoreKept ==
    ASSUME SignUpIInv, NEW r \in Requests, NEW n \in JobRow, n.pc # "idle" => n.path # "none",
           job' = [job EXCEPT ![r] = n],
           UNCHANGED <<profile, claimed, trials, referrals, sessions>>,
           n.pc # "commit", job[r].pc # "commit", n.pc = "session" => profile # "none"
    PROVE  Store(profile', claimed', trials', referrals', sessions', job')
<1>1. JobsOK(job') /\ job'[r] = n /\ \A q \in Requests \ {r} : job'[q] = job[q]
  BY JobMoved DEF SignUpIInv
<1>2. Store(profile, claimed, trials, referrals, sessions, job)
  BY DEF SignUpIInv
<1>3. \A q \in Requests : /\ job'[q].pc = "commit" <=> claimed = q
                          /\ job'[q].pc = "session" => profile # "none"
  BY <1>1, <1>2 DEF Store
<1>4. QED
  BY <1>2, <1>3 DEF Store

\* The insert, which others then wait for.
LEMMA CreateKeeps ==
    ASSUME SignUpConstants, SignUpIInv, NEW r \in Requests, Sign!CreateProfile(r)
    PROVE  SignUpIInv'
<1> DEFINE n == [job[r] EXCEPT !.pc = "commit"]
<1>1. /\ job[r].pc = "insert" /\ claimed = "nobody" /\ profile = "none" /\ claimed' = r
      /\ job' = [job EXCEPT ![r] = n]
      /\ UNCHANGED <<profile, trials, referrals, sessions, codes>>
  BY DEF Sign!CreateProfile, Sign!At, Sign!Goto, Sign!Nobody
<1>2. job[r] \in JobRow /\ job[r].path # "none"
  BY <1>1 DEF SignUpIInv, JobsOK
<1>3. n \in JobRow /\ n.pc = "commit" /\ n.path = job[r].path
  BY <1>2 DEF JobRow
<1> HIDE DEF n
<1>4. JobsOK(job') /\ job'[r] = n /\ \A q \in Requests \ {r} : job'[q] = job[q]
  BY <1>1, <1>2, <1>3, JobMoved DEF SignUpIInv
<1>5. Store(profile, claimed, trials, referrals, sessions, job)
  BY DEF SignUpIInv
<1>6. \A q \in Requests : /\ job'[q].pc = "commit" <=> claimed' = q
                          /\ job'[q].pc = "session" => profile' # "none"
  BY <1>1, <1>3, <1>4, <1>5 DEF Store, SignUpConstants
<1>7. Store(profile', claimed', trials', referrals', sessions', job')
  BY <1>1, <1>5, <1>6 DEF Store
<1>8. QED
  BY <1>1, <1>2, <1>3, <1>7, JobStep

\* The commit: profile, trial, referral and session at once.
LEMMA CommitKeeps ==
    ASSUME SignUpConstants, SignUpIInv, NEW r \in Requests, Sign!CommitSignUp(r)
    PROVE  SignUpIInv'
<1> DEFINE n == Sign!Free
<1>1. n \in JobRow /\ n.pc = "idle"
  BY DEF JobRow, Sign!Free
<1>2. /\ job[r].pc = "commit" /\ profile' = job[r].path /\ claimed' = "nobody"
      /\ trials' = trials + 1 /\ codes' = codes /\ job' = [job EXCEPT ![r] = n]
      /\ sessions' = IF sessions < 2 THEN sessions + 1 ELSE sessions
      /\ \/ referrals' = referrals
         \/ job[r].path = "telegram" /\ referrals' = referrals + 1
  BY DEF Sign!CommitSignUp, Sign!At, Sign!Done, Sign!Nobody, Sign!grantSignupTrial,
         Sign!applySignupReferral
<1> HIDE DEF n
<1>3. job[r].path \in Paths
  BY <1>2 DEF SignUpIInv, JobsOK, JobRow
<1>4. JobsOK(job') /\ job'[r] = n /\ \A q \in Requests \ {r} : job'[q] = job[q]
  BY <1>1, <1>2, JobMoved DEF SignUpIInv
<1>5. Store(profile, claimed, trials, referrals, sessions, job)
  BY DEF SignUpIInv
<1>6. claimed = r /\ claimed # "nobody" /\ profile = "none" /\ trials = 0 /\ referrals = 0
      /\ sessions = 0
  BY <1>2, <1>5 DEF Store, SignUpConstants
<1>7. profile' # "none"
  BY <1>2, <1>3 DEF Paths
<1>8. \A q \in Requests : job'[q].pc # "commit"
  BY <1>1, <1>4, <1>5, <1>6 DEF Store
<1>9. Store(profile', claimed', trials', referrals', sessions', job')
  <2>1. trials' = 1 /\ referrals' \in 0..1 /\ (referrals' = 1 => profile' = "telegram") /\ sessions' = 1
    BY <1>2, <1>6
  <2>2. \A q \in Requests : claimed' # q
    BY <1>2 DEF SignUpConstants
  <2>3. QED
    BY <1>2, <1>3, <1>7, <1>8, <2>1, <2>2 DEF Store
<1>10. QED
  BY <1>1, <1>2, <1>9, JobStep

\* A rollback gives the phone up.
LEMMA RollbackKeeps ==
    ASSUME SignUpConstants, SignUpIInv, NEW r \in Requests, Sign!Rollback(r)
    PROVE  SignUpIInv'
<1> DEFINE n == Sign!Free
<1>1. n \in JobRow /\ n.pc = "idle"
  BY DEF JobRow, Sign!Free
<1>2. /\ job' = [job EXCEPT ![r] = n] /\ claimed' = (IF claimed = r THEN "nobody" ELSE claimed)
      /\ UNCHANGED <<profile, trials, referrals, sessions, codes>>
  BY DEF Sign!Rollback, Sign!Done, Sign!Nobody
<1> HIDE DEF n
<1>3. JobsOK(job') /\ job'[r] = n /\ \A q \in Requests \ {r} : job'[q] = job[q]
  BY <1>1, <1>2, JobMoved DEF SignUpIInv
<1>4. Store(profile, claimed, trials, referrals, sessions, job)
  BY DEF SignUpIInv
<1>5. \A q \in Requests : /\ job'[q].pc = "commit" <=> claimed' = q
                          /\ job'[q].pc = "session" => profile # "none"
  BY <1>1, <1>2, <1>3, <1>4 DEF Store, SignUpConstants
<1>6. Store(profile', claimed', trials', referrals', sessions', job')
  BY <1>2, <1>4, <1>5 DEF Store
<1>7. QED
  BY <1>1, <1>2, <1>6, JobStep

\* A guess is read, on a code that has attempts left.
LEMMA VerifyKeeps ==
    ASSUME SignUpConstants, SignUpIInv, NEW r \in Requests, Sign!VerifyOTP(r)
    PROVE  SignUpIInv'
<1>1. codes \in Seq(CodeRow) /\ Guesses(codes, job)
  BY DEF SignUpIInv, Guesses
<1>2. PICK i \in 1..Len(codes) :
        /\ codes[i].attempts < MaxAttempts
        /\ job' = [job EXCEPT ![r] = [pc |-> "compare", path |-> "otp", code |-> i]]
  <2>1. DOMAIN codes = 1..Len(codes)
    BY <1>1
  <2>2. PICK i \in Sign!LatestOTPChallenge :
          /\ codes[i].attempts < MaxAttempts
          /\ job' = [job EXCEPT ![r] = [pc |-> "compare", path |-> "otp", code |-> i]]
    BY DEF Sign!VerifyOTP
  <2>3. i \in 1..Len(codes)
    BY <2>1 DEF Sign!LatestOTPChallenge
  <2>4. QED
    BY <2>2, <2>3
<1>3. /\ job[r].pc = "idle" /\ UNCHANGED <<profile, claimed, trials, referrals, sessions, codes>>
  BY DEF Sign!VerifyOTP, Sign!At, Sign!storeVars
<1> DEFINE n == [pc |-> "compare", path |-> "otp", code |-> i]
<1>4. n \in JobRow /\ n.pc = "compare" /\ n.path = "otp" /\ n.code = i
  BY DEF JobRow, Paths
<1>5. job' = [job EXCEPT ![r] = n]
  BY <1>2
<1> HIDE DEF n
<1>6. JobsOK(job') /\ job'[r] = n /\ \A q \in Requests \ {r} : job'[q] = job[q]
  BY <1>4, <1>5, JobMoved DEF SignUpIInv
<1>7. Store(profile', claimed', trials', referrals', sessions', job')
  BY <1>3, <1>4, <1>5, StoreKept
<1>8. ASSUME NEW x \in 1..Len(codes)
      PROVE  codes[x].attempts + Cardinality(Comparing(job', x)) < MaxAttempts + Cardinality(Requests)
  <2>1. codes[x].attempts \in Nat
    <3>1. codes[x] \in CodeRow
      BY <1>1
    <3>2. QED
      BY <3>1 DEF CodeRow
  <2>2. CASE x = i
    <3>1. /\ Cardinality(Comparing(job', x)) \in Nat /\ Cardinality(Requests) \in Nat
          /\ Cardinality(Comparing(job', x)) <= Cardinality(Requests) /\ MaxAttempts \in Nat
      BY ComparingFinite DEF SignUpConstants
    <3>2. QED
      BY <1>2, <2>1, <2>2, <3>1
  <2>3. CASE x # i
    <3>1. Comparing(job', x) = Comparing(job, x)
      BY <1>3, <1>4, <1>6, <2>3 DEF Comparing
    <3>2. QED
      BY <1>1, <3>1 DEF Guesses
  <2>4. QED
    BY <2>2, <2>3
<1>9. \A q \in Requests : job'[q].pc = "compare" => job'[q].code \in 1..Len(codes)
  BY <1>1, <1>4, <1>6 DEF Guesses
<1>10. Guesses(codes', job')
  BY <1>1, <1>3, <1>8, <1>9 DEF Guesses
<1>11. QED
  BY <1>6, <1>7, <1>10 DEF SignUpIInv

\* A wrong guess turns from one being compared into one counted.
LEMMA IncrementKeeps ==
    ASSUME SignUpConstants, SignUpIInv, NEW r \in Requests, Sign!IncrementOTPAttempts(r)
    PROVE  SignUpIInv'
<1> DEFINE i == job[r].code
           n == Sign!Free
           e == [codes[i] EXCEPT !.attempts = codes[i].attempts + 1]
<1>1. n \in JobRow /\ n.pc = "idle"
  BY DEF JobRow, Sign!Free
<1>2. /\ job[r].pc = "compare" /\ job' = [job EXCEPT ![r] = n]
      /\ codes' = [codes EXCEPT ![i] = e]
      /\ UNCHANGED <<profile, claimed, trials, referrals, sessions>>
  BY DEF Sign!IncrementOTPAttempts, Sign!At, Sign!Done, Sign!storeVars
<1> HIDE DEF n
<1>3. codes \in Seq(CodeRow) /\ Guesses(codes, job) /\ i \in 1..Len(codes) /\ r \in Comparing(job, i)
  BY <1>2 DEF SignUpIInv, Guesses, Comparing
<1>4. codes[i] \in CodeRow
  BY <1>3
<1> HIDE DEF i
<1>5. e \in CodeRow /\ e.attempts = codes[i].attempts + 1 /\ codes[i].attempts \in Nat
  BY <1>4 DEF CodeRow
<1> HIDE DEF e
<1>6. /\ codes' \in Seq(CodeRow) /\ Len(codes') = Len(codes)
      /\ \A x \in 1..Len(codes) : codes'[x] = IF x = i THEN e ELSE codes[x]
  BY <1>2, <1>3, <1>5, ExceptSeq
<1>7. JobsOK(job') /\ job'[r] = n /\ \A q \in Requests \ {r} : job'[q] = job[q]
  BY <1>1, <1>2, JobMoved DEF SignUpIInv
<1>8. Store(profile', claimed', trials', referrals', sessions', job')
  BY <1>1, <1>2, StoreKept
<1>9. ASSUME NEW x \in 1..Len(codes)
      PROVE  codes'[x].attempts + Cardinality(Comparing(job', x)) < MaxAttempts + Cardinality(Requests)
  <2>1. /\ Cardinality(Comparing(job', x)) \in Nat /\ Cardinality(Requests) \in Nat
        /\ Cardinality(Comparing(job, x)) \in Nat /\ IsFiniteSet(Comparing(job, x))
        /\ MaxAttempts \in Nat
    BY ComparingFinite DEF SignUpConstants
  <2>2. codes[x].attempts + Cardinality(Comparing(job, x)) < MaxAttempts + Cardinality(Requests)
    BY <1>3 DEF Guesses
  <2>3. CASE x = i
    <3>1. Comparing(job', x) = Comparing(job, x) \ {r} /\ r \in Comparing(job, x)
      BY <1>1, <1>3, <1>7, <2>3 DEF Comparing
    <3>2. Cardinality(Comparing(job, x) \ {r}) = Cardinality(Comparing(job, x)) - 1
      BY <2>1, <3>1, FS_RemoveElement
    <3>3. Cardinality(Comparing(job', x)) = Cardinality(Comparing(job, x)) - 1
      BY <3>1, <3>2
    <3>4. codes'[x].attempts = codes[x].attempts + 1 /\ codes[x].attempts \in Nat
      BY <1>5, <1>6, <2>3
    <3>5. QED
      BY <2>1, <2>2, <3>3, <3>4
  <2>4. CASE x # i
    <3>1. Comparing(job', x) \subseteq Comparing(job, x)
      BY <1>1, <1>7 DEF Comparing
    <3>2. Cardinality(Comparing(job', x)) <= Cardinality(Comparing(job, x))
      BY <2>1, <3>1, FS_Subset
    <3>3. codes'[x].attempts = codes[x].attempts
      BY <1>6, <2>4
    <3>4. codes[x] \in CodeRow
      BY <1>3
    <3>5. codes[x].attempts \in Nat
      BY <3>4 DEF CodeRow
    <3>6. QED
      BY <2>1, <2>2, <3>2, <3>3, <3>5
  <2>5. QED
    BY <2>3, <2>4
<1>10. \A q \in Requests : job'[q].pc = "compare" => job'[q].code \in 1..Len(codes')
  BY <1>1, <1>3, <1>6, <1>7 DEF Guesses
<1>11. Guesses(codes', job')
  BY <1>6, <1>9, <1>10 DEF Guesses
<1>12. QED
  BY <1>7, <1>8, <1>11 DEF SignUpIInv

\* The right guess: the code is spent, the request goes on.
LEMMA ConsumeKeeps ==
    ASSUME SignUpConstants, SignUpIInv, NEW r \in Requests, Sign!ConsumeOTP(r)
    PROVE  SignUpIInv'
<1> DEFINE i == job[r].code
           n == [job[r] EXCEPT !.pc = "lookup"]
           e == [codes[i] EXCEPT !.consumed = TRUE]
<1>1. /\ job[r].pc = "compare" /\ job' = [job EXCEPT ![r] = n]
      /\ codes' = [codes EXCEPT ![i] = e]
      /\ UNCHANGED <<profile, claimed, trials, referrals, sessions>>
  BY DEF Sign!ConsumeOTP, Sign!At, Sign!Goto, Sign!storeVars
<1>2. job[r] \in JobRow /\ job[r].path # "none"
  BY <1>1 DEF SignUpIInv, JobsOK
<1>3. n \in JobRow /\ n.pc = "lookup" /\ n.path = job[r].path
  BY <1>2 DEF JobRow
<1> HIDE DEF n
<1>4. codes \in Seq(CodeRow) /\ Guesses(codes, job) /\ i \in 1..Len(codes)
  BY <1>1 DEF SignUpIInv, Guesses
<1>5. codes[i] \in CodeRow
  BY <1>4
<1> HIDE DEF i
<1>6. e \in CodeRow /\ e.attempts = codes[i].attempts
  BY <1>5 DEF CodeRow
<1> HIDE DEF e
<1>7. /\ codes' \in Seq(CodeRow) /\ Len(codes') = Len(codes)
      /\ \A x \in 1..Len(codes) : codes'[x] = IF x = i THEN e ELSE codes[x]
  BY <1>1, <1>4, <1>6, ExceptSeq
<1>8. JobsOK(job') /\ job'[r] = n /\ \A q \in Requests \ {r} : job'[q] = job[q]
  BY <1>1, <1>2, <1>3, JobMoved DEF SignUpIInv
<1>9. Store(profile', claimed', trials', referrals', sessions', job')
  BY <1>1, <1>2, <1>3, StoreKept
<1>10. Guesses(codes', job')
  <2>1. \A x \in 1..Len(codes) : codes'[x].attempts = codes[x].attempts
    BY <1>6, <1>7
  <2>2. \A q \in Requests : job'[q].pc = "compare" => job'[q].pc = job[q].pc /\ job'[q].code = job[q].code
    BY <1>3, <1>8
  <2>3. QED
    BY <1>4, <1>7, <2>1, <2>2, GuessesKept
<1>11. QED
  BY <1>8, <1>9, <1>10 DEF SignUpIInv

\* The other steps of a request: the row of the phone is left alone, or a
\* session is opened on it.
LEMMA RequestKeeps ==
    ASSUME SignUpConstants, SignUpIInv, NEW r \in Requests,
           \/ Sign!Register(r) \/ Sign!TelegramArrives(r) \/ Sign!GetProfileByPhone(r)
           \/ Sign!PhoneTaken(r) \/ Sign!ReferralCodeTaken(r)
    PROVE  SignUpIInv'
<1>1. UNCHANGED <<profile, claimed, trials, referrals, sessions, codes>>
  BY DEF Sign!Register, Sign!TelegramArrives, Sign!GetProfileByPhone, Sign!PhoneTaken,
         Sign!ReferralCodeTaken, Sign!storeVars
<1>2. job[r] \in JobRow /\ (job[r].pc # "idle" => job[r].path # "none")
  BY DEF SignUpIInv, JobsOK
<1>3. Sign!Free \in JobRow /\ Sign!Free.pc = "idle"
  BY DEF JobRow, Sign!Free
<1>4. ASSUME NEW n \in JobRow, n.pc \in {"idle", "lookup"}, n.pc # "idle" => n.path # "none",
             job[r].pc \in {"idle", "lookup", "insert"}, job' = [job EXCEPT ![r] = n]
      PROVE  SignUpIInv'
  <2>1. Store(profile', claimed', trials', referrals', sessions', job')
    BY <1>1, <1>4, StoreKept
  <2>2. QED
    BY <1>1, <1>4, <2>1, JobStep
<1>5. ASSUME NEW pc \in {"insert", "session"}, job[r].pc \in {"lookup", "insert"},
             pc = "session" => profile # "none", job' = [job EXCEPT ![r].pc = pc]
      PROVE  SignUpIInv'
  <2> DEFINE n == [job[r] EXCEPT !.pc = pc]
  <2>1. n \in JobRow /\ n.pc = pc /\ n.path = job[r].path
    BY <1>2 DEF JobRow
  <2>2. job' = [job EXCEPT ![r] = n]
    BY <1>5
  <2> HIDE DEF n
  <2>3. Store(profile', claimed', trials', referrals', sessions', job')
    BY <1>1, <1>2, <1>5, <2>1, <2>2, StoreKept
  <2>4. QED
    BY <1>1, <1>2, <1>5, <2>1, <2>2, <2>3, JobStep
<1>6. CASE Sign!Register(r)
  <2> DEFINE n == [Sign!Free EXCEPT !.pc = "lookup", !.path = "register"]
  <2>1. n \in JobRow /\ n.pc = "lookup" /\ n.path = "register"
    BY <1>3 DEF JobRow, Paths
  <2>2. job[r].pc = "idle" /\ (job' = [job EXCEPT ![r] = n] \/ job' = [job EXCEPT ![r] = Sign!Free])
    BY <1>6 DEF Sign!Register, Sign!At
  <2> HIDE DEF n
  <2>3. QED
    BY <1>3, <1>4, <2>1, <2>2
<1>7. CASE Sign!TelegramArrives(r)
  <2> DEFINE n == [Sign!Free EXCEPT !.pc = "lookup", !.path = "telegram"]
  <2>1. n \in JobRow /\ n.pc = "lookup" /\ n.path = "telegram"
    BY <1>3 DEF JobRow, Paths
  <2>2. job[r].pc = "idle" /\ job' = [job EXCEPT ![r] = n]
    BY <1>7 DEF Sign!TelegramArrives, Sign!At
  <2> HIDE DEF n
  <2>3. QED
    BY <1>3, <1>4, <2>1, <2>2
<1>8. CASE Sign!GetProfileByPhone(r) \/ Sign!PhoneTaken(r) \/ Sign!ReferralCodeTaken(r)
  <2>1. /\ job[r].pc \in {"lookup", "insert"}
        /\ \/ job' = [job EXCEPT ![r] = Sign!Free]
           \/ job' = [job EXCEPT ![r].pc = "insert"]
           \/ job' = [job EXCEPT ![r].pc = "session"] /\ profile # "none"
    BY <1>8 DEF Sign!GetProfileByPhone, Sign!PhoneTaken, Sign!ReferralCodeTaken, Sign!At,
                      Sign!Goto, Sign!Done
  <2>2. QED
    BY <1>3, <1>4, <1>5, <2>1
<1>9. QED
  BY <1>6, <1>7, <1>8

LEMMA SignInKeeps ==
    ASSUME SignUpConstants, SignUpIInv, NEW r \in Requests, Sign!SignIn(r)
    PROVE  SignUpIInv'
<1> DEFINE n == Sign!Free
<1>1. n \in JobRow /\ n.pc = "idle"
  BY DEF JobRow, Sign!Free
<1>2. /\ job[r].pc = "session" /\ job' = [job EXCEPT ![r] = n]
      /\ sessions' = IF sessions < 2 THEN sessions + 1 ELSE sessions
      /\ UNCHANGED <<profile, claimed, trials, referrals, codes>>
  BY DEF Sign!SignIn, Sign!At, Sign!Done
<1> HIDE DEF n
<1>3. JobsOK(job') /\ job'[r] = n /\ \A q \in Requests \ {r} : job'[q] = job[q]
  BY <1>1, <1>2, JobMoved DEF SignUpIInv
<1>4. Store(profile, claimed, trials, referrals, sessions, job)
  BY DEF SignUpIInv
<1>5. sessions' \in Nat /\ profile # "none"
  BY <1>2, <1>4 DEF Store
<1>6. \A q \in Requests : /\ job'[q].pc = "commit" <=> claimed = q
                          /\ job'[q].pc = "session" => profile # "none"
  BY <1>1, <1>2, <1>3, <1>4 DEF Store
<1>7. Store(profile', claimed', trials', referrals', sessions', job')
  BY <1>2, <1>4, <1>5, <1>6 DEF Store
<1>8. QED
  BY <1>1, <1>2, <1>7, JobStep

\* Codes are made and expire; the limiter and the switches touch neither.
LEMMA AroundKeeps ==
    ASSUME SignUpConstants, SignUpIInv,
           \/ Sign!RequestOTP \/ Sign!CodeExpires \/ Sign!TurnOtpOff \/ Sign!rememberReferral
           \/ Sign!WindowEnds \/ Sign!LoseTTL \/ UNCHANGED Sign!signUpVars
    PROVE  SignUpIInv'
<1>1. UNCHANGED <<profile, claimed, trials, referrals, sessions, job>>
  BY DEF Sign!RequestOTP, Sign!CodeExpires, Sign!TurnOtpOff, Sign!rememberReferral,
         Sign!WindowEnds, Sign!LoseTTL, Sign!signUpVars, Sign!storeVars
<1>2. codes \in Seq(CodeRow) /\ Guesses(codes, job) /\ JobsOK(job)
  BY DEF SignUpIInv, Guesses
<1>3. Guesses(codes', job)
  <2>1. CASE Sign!RequestOTP
    <3> DEFINE e == [attempts |-> 0, consumed |-> FALSE, expired |-> FALSE]
    <3>1. e \in CodeRow /\ e.attempts = 0 /\ codes' = Append(codes, e)
      BY <2>1 DEF Sign!RequestOTP, CodeRow
    <3> HIDE DEF e
    <3>2. /\ codes' \in Seq(CodeRow) /\ Len(codes) \in Nat /\ Len(codes') = Len(codes) + 1
          /\ codes'[Len(codes) + 1] = e /\ \A x \in 1..Len(codes) : codes'[x] = codes[x]
      BY <1>2, <3>1
    <3>3. \A q \in Requests : job[q].pc = "compare" => job[q].code \in 1..Len(codes)
      BY <1>2 DEF Guesses
    <3>4. ASSUME NEW x \in 1..Len(codes')
          PROVE  codes'[x].attempts + Cardinality(Comparing(job, x)) < MaxAttempts + Cardinality(Requests)
      <4>1. CASE x = Len(codes) + 1
        <5>1. Len(codes) + 1 \notin 1..Len(codes)
          BY <3>2
        <5>2. Comparing(job, x) = {}
          BY <3>3, <4>1, <5>1 DEF Comparing
        <5>3. Cardinality(Comparing(job, x)) = 0 /\ Cardinality(Requests) \in Nat
          BY <5>2, FS_EmptySet, ComparingFinite
        <5>4. QED
          BY <3>1, <3>2, <4>1, <5>3 DEF SignUpConstants
      <4>2. CASE x \in 1..Len(codes)
        BY <1>2, <3>2, <4>2 DEF Guesses
      <4>3. QED
        BY <3>2, <4>1, <4>2
    <3>5. \A q \in Requests : job[q].pc = "compare" => job[q].code \in 1..Len(codes')
      BY <3>2, <3>3
    <3>6. QED
      BY <3>2, <3>4, <3>5 DEF Guesses
  <2>2. CASE Sign!CodeExpires
    <3>1. PICK i \in 1..Len(codes) : codes' = [codes EXCEPT ![i].expired = TRUE]
      <4>1. DOMAIN codes = 1..Len(codes)
        BY <1>2
      <4>2. QED
        BY <2>2, <4>1 DEF Sign!CodeExpires
    <3> DEFINE e == [codes[i] EXCEPT !.expired = TRUE]
    <3>2. codes[i] \in CodeRow
      BY <1>2
    <3>3. e \in CodeRow /\ e.attempts = codes[i].attempts /\ codes' = [codes EXCEPT ![i] = e]
      BY <3>1, <3>2 DEF CodeRow
    <3> HIDE DEF e
    <3>4. /\ codes' \in Seq(CodeRow) /\ Len(codes') = Len(codes)
          /\ \A x \in 1..Len(codes) : codes'[x] = IF x = i THEN e ELSE codes[x]
      BY <1>2, <3>3, ExceptSeq
    <3>5. \A x \in 1..Len(codes) : codes'[x].attempts = codes[x].attempts
      BY <3>3, <3>4
    <3>6. QED
      BY <1>2, <3>4, <3>5, GuessesKept
  <2>3. CASE codes' = codes
    BY <1>2, <2>3
  <2>4. QED
    BY <2>1, <2>2, <2>3 DEF Sign!TurnOtpOff, Sign!rememberReferral, Sign!WindowEnds, Sign!LoseTTL,
                            Sign!signUpVars
<1>4. QED
  BY <1>1, <1>2, <1>3 DEF SignUpIInv

\* However many paths race for the phone and wherever each of them stops: one
\* profile comes out of it, with exactly one welcome trial and at most one
\* referral; and guesses in flight together pass the attempt limit by less than
\* their number (CreateProfile, CommitSignUp, VerifyOTP).
THEOREM SignUpThm ==
    ASSUME SignUpConstants
    PROVE  Sign!SignUpSpec => []SignUpInv
<1>1. Sign!SignUpInit => SignUpIInv
  <2> SUFFICES ASSUME Sign!SignUpInit PROVE SignUpIInv
    OBVIOUS
  <2> DEFINE n == Sign!Free
  <2>1. n \in JobRow /\ n.pc = "idle"
    BY DEF JobRow, Sign!Free
  <2>2. /\ profile = "none" /\ claimed = "nobody" /\ trials = 0 /\ referrals = 0 /\ sessions = 0
        /\ codes = <<>> /\ job = [r \in Requests |-> n]
    BY DEF Sign!SignUpInit, Sign!Nobody
  <2> HIDE DEF n
  <2>3. job \in [Requests -> JobRow] /\ \A r \in Requests : job[r] = n
    BY <2>1, <2>2
  <2>4. JobsOK(job)
    BY <2>1, <2>3 DEF JobsOK
  <2>5. Store(profile, claimed, trials, referrals, sessions, job)
    BY <2>1, <2>2, <2>3 DEF Store, SignUpConstants
  <2>6. codes \in Seq(CodeRow) /\ Len(codes) = 0
    BY <2>2
  <2>7. Guesses(codes, job)
    BY <2>1, <2>3, <2>6 DEF Guesses
  <2>8. QED
    BY <2>4, <2>5, <2>7 DEF SignUpIInv
<1>2. SignUpIInv /\ [Sign!SignUpNext]_Sign!signUpVars => SignUpIInv'
  BY VerifyKeeps, IncrementKeeps, ConsumeKeeps, RequestKeeps, CreateKeeps, CommitKeeps, SignInKeeps,
     RollbackKeeps, AroundKeeps DEF Sign!SignUpNext, Sign!Proceed
<1>3. SignUpIInv => SignUpInv
  <2> SUFFICES ASSUME SignUpIInv PROVE Sign!SignUpInv
    BY DEF SignUpInv
  <2>1. Store(profile, claimed, trials, referrals, sessions, job)
    BY DEF SignUpIInv
  <2>2. claimed # "nobody" => profile = "none" /\ job[claimed].pc = "commit"
    BY <2>1 DEF Store
  <2>3. \A i \in DOMAIN codes : codes[i].attempts < MaxAttempts + Sign!Cardinality(Requests)
    <3>1. Sign!Cardinality(Requests) = Cardinality(Requests)
      BY DEF Sign!Cardinality, Cardinality
    <3>2. DOMAIN codes = 1..Len(codes) /\ \A i \in 1..Len(codes) : codes[i] \in CodeRow
      BY DEF SignUpIInv, Guesses
    <3>3. ASSUME NEW i \in 1..Len(codes) PROVE codes[i].attempts < MaxAttempts + Cardinality(Requests)
      <4>1. /\ codes[i].attempts + Cardinality(Comparing(job, i)) < MaxAttempts + Cardinality(Requests)
            /\ codes[i].attempts \in Nat
        BY <3>2 DEF SignUpIInv, Guesses, CodeRow
      <4>2. /\ Cardinality(Comparing(job, i)) \in Nat /\ Cardinality(Requests) \in Nat
            /\ MaxAttempts \in Nat
        BY ComparingFinite DEF SignUpConstants
      <4>3. QED
        BY <4>1, <4>2
    <3>4. QED
      BY <3>1, <3>2, <3>3
  <2>4. QED
    BY <2>1, <2>2, <2>3 DEF Store, Sign!SignUpInv, Sign!Nobody
<1>4. QED
  BY <1>1, <1>2, <1>3, PTL DEF Sign!SignUpSpec
=============================================================================
