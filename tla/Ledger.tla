------------------------------- MODULE Ledger -------------------------------
(***************************************************************************)
(* What a payment is worth: the checkout that sells a tariff (checkout.go, *)
(* promo.go), the grant that a completed payment buys (entitlement.go),    *)
(* the referral behind it (referral.go) and the referrer's wallet          *)
(* (wallet.go, admin/referral.go).  A worker is one database transaction   *)
(* of one HTTP request or provider callback; its row locks are held from   *)
(* the step that takes them to its commit, and what it has read stays in   *)
(* its record until then.                                                  *)
(***************************************************************************)
EXTENDS Integers, FiniteSets, FiniteSetsExt

CONSTANTS Profiles, Workers,
          NPayments, NPayouts,       \* rows of payment and referral_payout at most (bounds)
          PayoutAmounts,             \* the amounts withdrawals are asked for
          PriceUzs, TariffDays,      \* the tariff on sale, in money and in clock ticks
          BonusDays,                 \* BuyerReferralBonusDays of that tariff
          Percent,                   \* referral_commission_percent when it is not 0
          PromoKinds, PromoValue,    \* promo_code.kind is one of these; its .value
          MaxUses, PerUserLimit,     \* promo_code.max_uses and .per_user_limit
          AttachWindow,              \* until when a new account may name its referrer
          MaxTime,                   \* how far the clock runs (bound)
          MaxUpsets                  \* administrative acts and faults (bound)

NoOne == "none"
NoPay == 0
Purchases == 1 .. NPayments
Payouts == 1 .. NPayouts

VARIABLES
    now,       \* the database clock
    pay,       \* payment rows
    ents,      \* entitlement rows
    redeemed,  \* promo_redemption rows: payments
    promoKind, \* promo_code.kind
    promoOn,   \* promo_code.active and inside valid_from .. valid_to
    selling,   \* payment_provider_status.enabled and the checkout_* flag
    referral,  \* referral row of each referee: [by, st], st in none/pending/rewarded
    percent,   \* profile.referral_commission_percent
    ledger,    \* referral_ledger rows
    payout,    \* referral_payout rows
    tx,        \* what each worker's transaction holds and has read
    upsets     \* administrative acts and faults so far

ledgerVars == <<now, pay, ents, redeemed, promoKind, promoOn, selling, referral,
                percent, ledger, payout, tx, upsets>>

Idle == [op |-> "idle", u |-> NoOne, p |-> NoPay, step |-> 0, promo |-> FALSE,
         locks |-> {}, read |-> 0, ok |-> FALSE]
Unsold == [st |-> "none", u |-> NoOne, amount |-> 0, promo |-> FALSE]

LedgerInit ==
    /\ now = 0 /\ upsets = 0
    /\ pay = [p \in Purchases |-> Unsold]
    /\ ents = {} /\ redeemed = {} /\ ledger = {}
    /\ promoKind \in PromoKinds /\ promoOn = TRUE /\ selling = TRUE
    /\ referral = [u \in Profiles |-> [by |-> NoOne, st |-> "none"]]
    /\ percent = [u \in Profiles |-> Percent]
    /\ payout = [k \in Payouts |-> [u |-> NoOne, amount |-> 0, st |-> "none"]]
    /\ tx = [w \in Workers |-> Idle]

Upset == upsets < MaxUpsets /\ upsets' = upsets + 1
Begin(w, t) == tx[w].op = "idle" /\ tx' = [tx EXCEPT ![w] = t]
At(w, op, step) == tx[w].op = op /\ tx[w].step = step
Close(w) == tx' = [tx EXCEPT ![w] = Idle]

-----------------------------------------------------------------------------
(* Row locks.                                                               *)

PromoLockFree == \A w \in Workers : ~tx[w].promo
ProfileLockFree(w, u) == \A v \in Workers \ {w} : u \notin tx[v].locks
\* Mutant: the grant reads the current end without SELECT ... FOR UPDATE.
NoProfileLock(w, u) == TRUE
LockProfileForGrant(w, u) == ProfileLockFree(w, u)
Untouched(p) == pay[p].st = "none" /\ \A v \in Workers : tx[v].p # p
FreshPayment(p) == Untouched(p) /\ \A q \in Purchases : Untouched(q) => p <= q

(* Promo codes.                                                             *)

CountPromoRedemptions == Cardinality(redeemed)
CountUserPromoRedemptions(u) == Cardinality({p \in redeemed : pay[p].u = u})
checkPromoRedeemable(u) == /\ promoOn
                           /\ CountUserPromoRedemptions(u) < PerUserLimit
                           /\ CountPromoRedemptions < MaxUses

(* The price after the code: evaluatePromo.                                 *)
Least(a, b) == IF a < b THEN a ELSE b
Discount == CASE promoKind = "percent" -> Least(PriceUzs, (PriceUzs * PromoValue) \div 100)
              [] promoKind = "fixed" -> Least(PriceUzs, PromoValue)
              [] promoKind = "days" -> PriceUzs
evaluatePromo == PriceUzs - Discount
BonusOfPromo == IF promoKind = "days" THEN PromoValue ELSE 0

proRatedDays(paid) ==
    IF paid >= PriceUzs THEN TariffDays
    ELSE LET d == (TariffDays * paid) \div PriceUzs IN IF d < 1 THEN 1 ELSE d

(* Entitlement rows.                                                        *)

EndsOf(u) == {e.ends : e \in {x \in ents : x.u = u}}
ActiveEntitlementEnd(u) == Max({now} \cup EndsOf(u))
Status(u) == \E e \in ents : e.u = u /\ e.ends > now
InsertEntitlement(u, p, source, start, days) ==
    [u |-> u, p |-> p, source |-> source, starts |-> start, ends |-> start + days]

(* Ledger rows.                                                             *)

InsertReferralLedger(u, type, amount, ref) == [u |-> u, type |-> type, amount |-> amount, ref |-> ref]
SumOf(rows) == FoldSet(LAMBDA r, acc : r.amount + acc, 0, rows)
GetReferralBalance(u) == SumOf({r \in ledger : r.u = u})
GetReferralEarnedCommission(u) == SumOf({r \in ledger : r.u = u /\ r.type = "commission"})
GetCommissionByPaymentID(p) == {r \in ledger : r.type = "commission" /\ r.ref = p}
GetClawbackByPaymentID(p) == {r \in ledger : r.type = "clawback" /\ r.ref = p}
GetReferralPayoutSummaryForProfile(u, st) ==
    SumOf({[payout[k] EXCEPT !.u = k] : k \in {x \in Payouts : payout[x].u = u /\ payout[x].st = st}})
(* What the learner's wallet page shows.                                    *)
GetReferralStats(u) ==
    [invited  |-> Cardinality({v \in Profiles : referral[v].by = u}),
     rewarded |-> Cardinality({v \in Profiles : referral[v].by = u /\ referral[v].st = "rewarded"}),
     earned   |-> GetReferralEarnedCommission(u),
     balance  |-> GetReferralBalance(u)]
GetReferralActivity(u) ==
    [st \in {"pending", "paid", "rejected"} |-> GetReferralPayoutSummaryForProfile(u, st)]
CommissionUZS(amount, pct) == (amount * pct) \div 100

-----------------------------------------------------------------------------
(* Checkout.  The first step reads the code: a promo code is locked FOR     *)
(* UPDATE and evaluated, a referral code attaches the buyer to its owner.   *)
(* A referral row that exists already makes CreateReferral fail and with it *)
(* the whole transaction, so such a checkout never reaches its commit.      *)

CountPaidPaymentsForProfile(u) == Cardinality({p \in Purchases : pay[p].u = u /\ pay[p].st = "paid"})
MayAttach(u) == CountPaidPaymentsForProfile(u) = 0 /\ now <= AttachWindow

EnsureProviderEnabled(amount) == amount = 0 \/ selling

StartCheckout(w, u, p) ==
    /\ tx[w].op = "idle" /\ FreshPayment(p) /\ EnsureProviderEnabled(PriceUzs)
    /\ pay' = [pay EXCEPT ![p] = [st |-> "created", u |-> u, amount |-> PriceUzs, promo |-> FALSE]]
    /\ UNCHANGED <<now, ents, redeemed, promoOn, selling, referral, percent, ledger, payout, tx, upsets, promoKind>>

validatePromoLocked(w, u, p) ==
    /\ FreshPayment(p) /\ PromoLockFree /\ promoOn
    /\ checkPromoRedeemable(u) /\ EnsureProviderEnabled(evaluatePromo)
    /\ Begin(w, [Idle EXCEPT !.op = "checkout", !.u = u, !.p = p, !.promo = TRUE, !.read = evaluatePromo])
    /\ UNCHANGED <<now, pay, ents, redeemed, promoOn, selling, referral, percent, ledger, payout, upsets, promoKind>>

TryApplyReferralAtCheckout(w, u, p) ==
    /\ FreshPayment(p) /\ MayAttach(u) /\ EnsureProviderEnabled(PriceUzs)
    /\ Begin(w, [Idle EXCEPT !.op = "refcheckout", !.u = u, !.p = p, !.read = PriceUzs])
    /\ UNCHANGED <<now, pay, ents, redeemed, promoOn, selling, referral, percent, ledger, payout, upsets, promoKind>>

CreatePayment(w, st) ==
    pay' = [pay EXCEPT ![tx[w].p] = [st |-> st, u |-> tx[w].u, amount |-> tx[w].read, promo |-> tx[w].promo]]

CreateReferral(u, r) ==
    /\ referral[u].st = "none" /\ r # u
    /\ referral' = [referral EXCEPT ![u] = [by |-> r, st |-> "pending"]]

CheckoutCommit(w) ==
    /\ At(w, "checkout", 0) /\ tx[w].read > 0
    /\ CreatePayment(w, "created") /\ Close(w)
    /\ UNCHANGED <<now, ents, redeemed, promoOn, selling, referral, percent, ledger, payout, upsets, promoKind>>

ReferralCheckoutCommit(w) ==
    /\ At(w, "refcheckout", 0)
    /\ \E r \in Profiles : CreateReferral(tx[w].u, r)
    /\ CreatePayment(w, "created") /\ Close(w)
    /\ UNCHANGED <<now, ents, redeemed, promoOn, selling, percent, ledger, payout, upsets, promoKind>>

(* A checkout the code makes free is paid, granted and redeemed in the same *)
(* transaction: first the profile lock and the stacking read, then commit.  *)
FreeCheckoutLock(w) ==
    /\ At(w, "checkout", 0) /\ tx[w].read = 0 /\ LockProfileForGrant(w, tx[w].u)
    /\ tx' = [tx EXCEPT ![w].step = 1, ![w].locks = {tx[w].u}, ![w].read = ActiveEntitlementEnd(tx[w].u)]
    /\ UNCHANGED <<now, pay, ents, redeemed, promoOn, selling, referral, percent, ledger, payout, upsets, promoKind>>

FreeCheckoutCommit(w) ==
    /\ At(w, "checkout", 1)
    /\ pay' = [pay EXCEPT ![tx[w].p] = [st |-> "paid", u |-> tx[w].u, amount |-> 0, promo |-> TRUE]]
    /\ ents' = ents \cup {InsertEntitlement(tx[w].u, tx[w].p, "promo", tx[w].read, TariffDays + BonusOfPromo)}
    /\ redeemed' = redeemed \cup {tx[w].p}
    /\ Close(w)
    /\ UNCHANGED <<now, promoOn, selling, referral, percent, ledger, payout, upsets, promoKind>>

checkout(w) == \E u \in Profiles, p \in Purchases :
    StartCheckout(w, u, p) \/ validatePromoLocked(w, u, p) \/ TryApplyReferralAtCheckout(w, u, p)

(* POST /me/referral: the eligibility reads and the insert are separate     *)
(* statements.                                                              *)
ApplyReferralRead(w, u) ==
    /\ MayAttach(u) /\ referral[u].st = "none"
    /\ Begin(w, [Idle EXCEPT !.op = "apply", !.u = u])
    /\ UNCHANGED <<now, pay, ents, redeemed, promoOn, selling, referral, percent, ledger, payout, upsets, promoKind>>
ApplyReferralCode(w) ==
    /\ At(w, "apply", 0) /\ Close(w)
    /\ IF referral[tx[w].u].st = "none" THEN \E r \in Profiles : CreateReferral(tx[w].u, r)
       ELSE UNCHANGED referral
    /\ UNCHANGED <<now, pay, ents, redeemed, promoOn, selling, percent, ledger, payout, upsets, promoKind>>
applyReferral(w) == (\E u \in Profiles : ApplyReferralRead(w, u)) \/ ApplyReferralCode(w)

-----------------------------------------------------------------------------
(* Completion: the provider's callback marks the payment paid and grants    *)
(* what it bought, in one transaction (ProcessPaymentGrant).                *)

CompletePayment(w, p) ==
    /\ pay[p].st = "created" /\ \A v \in Workers : tx[v].p # p
    /\ pay[p].promo => PromoLockFree
    /\ Begin(w, [Idle EXCEPT !.op = "complete", !.u = pay[p].u, !.p = p, !.promo = pay[p].promo,
                 !.ok = pay[p].promo /\ checkPromoRedeemable(pay[p].u)])
    /\ UNCHANGED <<now, pay, ents, redeemed, promoOn, selling, referral, percent, ledger, payout, upsets, promoKind>>

GrantDaysLock(w) ==
    /\ At(w, "complete", 0) /\ LockProfileForGrant(w, tx[w].u)
    /\ tx' = [tx EXCEPT ![w].step = 1, ![w].locks = {tx[w].u}, ![w].read = ActiveEntitlementEnd(tx[w].u)]
    /\ UNCHANGED <<now, pay, ents, redeemed, promoOn, selling, referral, percent, ledger, payout, upsets, promoKind>>

DaysBought(p, ok) ==
    IF pay[p].promo /\ ~ok THEN proRatedDays(pay[p].amount)
    ELSE TariffDays + (IF ok THEN BonusOfPromo ELSE 0)

ClaimPendingReferralForReferee(u) == referral[u].st = "pending"
BuyerReferralBonusDays(u, p, start) ==
    IF ClaimPendingReferralForReferee(u) /\ BonusDays > 0
    THEN {InsertEntitlement(u, p, "referral_buyer", start, BonusDays)} ELSE {}
creditReferralCommission(u, p) ==
    LET r == referral[u].by
        c == CommissionUZS(pay[p].amount, percent[r]) IN
    IF ClaimPendingReferralForReferee(u) /\ c > 0
    THEN {InsertReferralLedger(r, "commission", c, p)} ELSE {}

processReferralRewardOnPayment(u, p) ==
    /\ referral' = [referral EXCEPT ![u].st = IF ClaimPendingReferralForReferee(u) THEN "rewarded" ELSE @]
    /\ ledger' = ledger \cup creditReferralCommission(u, p)

ProcessPaymentGrant(w) ==
    LET p == tx[w].p  u == tx[w].u  days == DaysBought(p, tx[w].ok) IN
    /\ At(w, "complete", 1)
    /\ pay' = [pay EXCEPT ![p].st = "paid"]
    /\ redeemed' = IF tx[w].ok THEN redeemed \cup {p} ELSE redeemed
    /\ ents' = ents \cup {InsertEntitlement(u, p, "purchase", tx[w].read, days)}
                    \cup BuyerReferralBonusDays(u, p, tx[w].read + days)
    /\ processReferralRewardOnPayment(u, p)
    /\ Close(w)
    /\ UNCHANGED <<now, promoOn, selling, percent, payout, upsets, promoKind>>

(* GrantDays by an administrator (grantUserVIP, cmd/grantvip).              *)
grantUserVIP(w, u) ==
    /\ Upset /\ LockProfileForGrant(w, u)
    /\ Begin(w, [Idle EXCEPT !.op = "grant", !.u = u, !.locks = {u}, !.read = ActiveEntitlementEnd(u)])
    /\ UNCHANGED <<now, pay, ents, redeemed, promoOn, selling, referral, percent, ledger, payout, promoKind>>
GrantDays(w) ==
    /\ At(w, "grant", 0) /\ Close(w)
    /\ ents' = ents \cup {InsertEntitlement(tx[w].u, NoPay, "admin", tx[w].read, 1)}
    /\ UNCHANGED <<now, pay, redeemed, promoOn, selling, referral, percent, ledger, payout, upsets, promoKind>>

-----------------------------------------------------------------------------
(* Refund (Payme cancels a performed transaction): the rows bought by the   *)
(* payment are clamped, those that have not started to a one-second stub,   *)
(* and the commission is taken back in full.                                *)

RefundLock(w, p) ==
    /\ pay[p].st = "paid" /\ pay[p].amount > 0 /\ \A v \in Workers : tx[v].p # p
    /\ LockProfileForGrant(w, pay[p].u)
    /\ Begin(w, [Idle EXCEPT !.op = "refund", !.u = pay[p].u, !.p = p, !.locks = {pay[p].u}])
    /\ UNCHANGED <<now, pay, ents, redeemed, promoOn, selling, referral, percent, ledger, payout, upsets, promoKind>>

(* One of the payment's rows decides where all are cut; the query has no    *)
(* ORDER BY, so it may be the purchase or the buyer's bonus.                *)
GetEntitlementByPaymentID(p) == {e \in ents : e.p = p}
ClampTo(e) == IF now > e.starts THEN now ELSE e.starts + 1
\* Mutant: the clamp selects by profile_id instead of payment_id.
ClampAllOfTheProfile(p, to) ==
    {IF e.u = pay[p].u /\ e.ends > to
     THEN [e EXCEPT !.ends = IF e.starts >= to THEN e.starts + 1 ELSE to] ELSE e : e \in ents}
ClampAllEntitlementsForPayment(p, to) ==
    {IF e.p = p /\ e.ends > to
     THEN [e EXCEPT !.ends = IF e.starts >= to THEN e.starts + 1 ELSE to] ELSE e : e \in ents}

ClawbackReferralCommissionOnRefund(p) ==
    IF GetClawbackByPaymentID(p) # {} THEN {}
    ELSE {InsertReferralLedger(r.u, "clawback", - r.amount, p) : r \in GetCommissionByPaymentID(p)}

RevokeEntitlementForPayment(w) ==
    LET p == tx[w].p IN
    /\ At(w, "refund", 0)
    /\ \A r \in GetCommissionByPaymentID(p) : LockProfileForGrant(w, r.u)
    /\ \E e \in GetEntitlementByPaymentID(p) : ents' = ClampAllEntitlementsForPayment(p, ClampTo(e))
    /\ ledger' = ledger \cup ClawbackReferralCommissionOnRefund(p)
    /\ pay' = [pay EXCEPT ![p].st = "refunded"]
    /\ Close(w)
    /\ UNCHANGED <<now, redeemed, promoOn, selling, referral, percent, payout, upsets, promoKind>>

-----------------------------------------------------------------------------
(* The referrer's wallet.                                                   *)

PayoutLock(w, u, amount) ==
    /\ LockProfileForGrant(w, u) /\ amount > 0 /\ GetReferralBalance(u) >= amount
    /\ Begin(w, [Idle EXCEPT !.op = "payout", !.u = u, !.locks = {u}, !.read = amount])
    /\ UNCHANGED <<now, pay, ents, redeemed, promoOn, selling, referral, percent, ledger, payout, upsets, promoKind>>

CreateReferralPayout(k, u, amount) ==
    /\ payout[k].st = "none" /\ \A j \in Payouts : payout[j].st = "none" => k <= j
    /\ payout' = [payout EXCEPT ![k] = [u |-> u, amount |-> amount, st |-> "pending"]]

RequestReferralPayout(w) ==
    /\ At(w, "payout", 0) /\ Close(w)
    /\ \E k \in Payouts :
        /\ CreateReferralPayout(k, tx[w].u, tx[w].read)
        /\ ledger' = ledger \cup {InsertReferralLedger(tx[w].u, "payout_hold", - tx[w].read, k)}
    /\ UNCHANGED <<now, pay, ents, redeemed, promoOn, selling, referral, percent, upsets, promoKind>>

requestReferralPayout(w) ==
    (\E u \in Profiles, a \in PayoutAmounts : PayoutLock(w, u, a)) \/ RequestReferralPayout(w)

GetReferralPayoutForUpdate(k) == payout[k].st
MarkReferralPayoutPaid(k) ==
    /\ GetReferralPayoutForUpdate(k) = "pending"
    /\ payout' = [payout EXCEPT ![k].st = "paid"]
    /\ UNCHANGED <<now, pay, ents, redeemed, promoOn, selling, referral, percent, ledger, tx, upsets, promoKind>>
RejectReferralPayout(k) ==
    /\ GetReferralPayoutForUpdate(k) = "pending"
    /\ payout' = [payout EXCEPT ![k].st = "rejected"]
    /\ ledger' = ledger \cup {InsertReferralLedger(payout[k].u, "payout_reject_release", payout[k].amount, k)}
    /\ UNCHANGED <<now, pay, ents, redeemed, promoOn, selling, referral, percent, tx, upsets, promoKind>>

(* The administrator sets the balance to a target: one adjusting row.       *)
SetBalanceLock(w, u, target) ==
    /\ Upset /\ LockProfileForGrant(w, u)
    /\ Begin(w, [Idle EXCEPT !.op = "adjust", !.u = u, !.locks = {u}, !.read = target - GetReferralBalance(u)])
    /\ UNCHANGED <<now, pay, ents, redeemed, promoOn, selling, referral, percent, ledger, payout, promoKind>>
SetUserReferralBalance(w) ==
    /\ At(w, "adjust", 0) /\ Close(w)
    /\ ledger' = IF tx[w].read = 0 THEN ledger
                 ELSE ledger \cup {InsertReferralLedger(tx[w].u, "admin_adjust", tx[w].read, upsets)}
    /\ UNCHANGED <<now, pay, ents, redeemed, promoOn, selling, referral, percent, payout, upsets, promoKind>>
putUserReferralBalance(w) ==
    (\E u \in Profiles, t \in {0, 1} : SetBalanceLock(w, u, t)) \/ SetUserReferralBalance(w)

UpdateUserReferralCommissionPercent(u, pct) ==
    /\ Upset /\ pct # percent[u] /\ percent' = [percent EXCEPT ![u] = pct]
    /\ UNCHANGED <<now, pay, ents, redeemed, promoOn, selling, referral, ledger, payout, tx, promoKind>>

-----------------------------------------------------------------------------
(* The surroundings: the clock, the console's switches, transactions that   *)
(* fail and roll back.                                                      *)

Tick ==
    /\ now < MaxTime /\ now' = now + 1
    /\ UNCHANGED <<pay, ents, redeemed, promoOn, selling, referral, percent, ledger, payout, tx, upsets, promoKind>>
PromoEnds ==
    /\ promoOn /\ PromoLockFree /\ Upset /\ promoOn' = FALSE
    /\ UNCHANGED <<now, pay, ents, redeemed, selling, referral, percent, ledger, payout, tx, promoKind>>
SetProviderEnabled(on) ==
    /\ selling # on /\ Upset /\ selling' = on
    /\ UNCHANGED <<now, pay, ents, redeemed, promoOn, referral, percent, ledger, payout, tx, promoKind>>
Rollback(w) ==
    /\ tx[w].op # "idle" /\ Upset /\ Close(w)
    /\ UNCHANGED <<now, pay, ents, redeemed, promoOn, selling, referral, percent, ledger, payout, promoKind>>

LedgerNext ==
    \/ \E w \in Workers :
        \/ checkout(w) \/ CheckoutCommit(w) \/ ReferralCheckoutCommit(w)
        \/ FreeCheckoutLock(w) \/ FreeCheckoutCommit(w)
        \/ applyReferral(w)
        \/ \E p \in Purchases : CompletePayment(w, p) \/ RefundLock(w, p)
        \/ GrantDaysLock(w) \/ ProcessPaymentGrant(w)
        \/ \E u \in Profiles : grantUserVIP(w, u)
        \/ GrantDays(w) \/ RevokeEntitlementForPayment(w)
        \/ requestReferralPayout(w) \/ putUserReferralBalance(w)
        \/ Rollback(w)
    \/ \E k \in Payouts : MarkReferralPayoutPaid(k) \/ RejectReferralPayout(k)
    \/ \E u \in Profiles, pct \in {0, Percent} : UpdateUserReferralCommissionPercent(u, pct)
    \/ \E on \in BOOLEAN : SetProviderEnabled(on)
    \/ Tick \/ PromoEnds

LedgerSpec == LedgerInit /\ [][LedgerNext]_ledgerVars

-----------------------------------------------------------------------------
(* Two grants of one profile never cover the same time: what was bought     *)
(* back to back adds up (GrantDaysForPayment stacks under the profile lock).*)
GrantsStack ==
    \A e, f \in ents : (e.u = f.u /\ e # f) => (e.ends <= f.starts \/ f.ends <= e.starts)

(* Never more redemptions of a code than max_uses and per_user_limit allow, *)
(* however many discounted checkouts were banked before they were paid.     *)
PromoWithinLimits ==
    /\ CountPromoRedemptions <= MaxUses
    /\ \A u \in Profiles : CountUserPromoRedemptions(u) <= PerUserLimit

(* A completed payment is worth what it cost: a payment below the list      *)
(* price gets more than its share of the term only if its redemption was    *)
(* recorded.                                                                 *)
ValueForMoney ==
    \A e \in ents :
        /\ e.source \in {"purchase", "promo"} /\ pay[e.p].st = "paid"
        /\ e.ends - e.starts > proRatedDays(pay[e.p].amount)
        => e.p \in redeemed

(* A referee's purchases earn at most one commission, for the referrer the  *)
(* row names, and a refunded payment's commission has been taken back to    *)
(* the last so'm while a standing one has not.                              *)
CommissionSettled ==
    /\ \A r, s \in {x \in ledger : x.type = "commission"} : pay[r.ref].u = pay[s.ref].u => r = s
    /\ \A u \in Profiles : Cardinality({r \in ledger : r.type = "commission" /\ r.u = u}) <= GetReferralStats(u).rewarded
    /\ \A r \in ledger : r.type = "commission" => referral[pay[r.ref].u].by = r.u
    /\ \A p \in Purchases :
        SumOf(GetCommissionByPaymentID(p) \cup GetClawbackByPaymentID(p))
            = IF pay[p].st = "paid" THEN SumOf(GetCommissionByPaymentID(p)) ELSE 0

(* The wallet is never overdrawn: a withdrawal or a debit by the console    *)
(* takes no more than the balance holds, whatever else is writing to it, so *)
(* only a clawback can take a balance below zero, and by no more than it    *)
(* took back.                                                               *)
NeverOverdrawn ==
    \A u \in Profiles :
        GetReferralStats(u).balance >= SumOf({r \in ledger : r.u = u /\ r.type = "clawback"})

(* A withdrawal that was refused gives its hold back exactly once, one that *)
(* was paid never does, and what the console reports as paid and pending is *)
(* what the ledger holds back.                                              *)
HoldsMatchPayouts ==
    \A u \in Profiles :
        GetReferralActivity(u)["paid"] + GetReferralActivity(u)["pending"]
            = - SumOf({r \in ledger : r.u = u /\ r.type \in {"payout_hold", "payout_reject_release"}})

(* The books of checkout, grants and wallet agree in every committed state. *)
LedgerInv == GrantsStack /\ PromoWithinLimits /\ ValueForMoney /\ CommissionSettled
             /\ NeverOverdrawn /\ HoldsMatchPayouts

(* What was granted stands: a row of entitlement is never removed, and its  *)
(* term is only cut in the step that refunds the very payment that bought   *)
(* it, never by the refund of another payment of the same profile.          *)
GrantsStand ==
    [][\A e \in ents \ ents' :
          /\ e.p # NoPay /\ pay[e.p].st = "paid" /\ pay'[e.p].st = "refunded"
          /\ \E f \in ents' : f.p = e.p /\ f.source = e.source /\ f.starts = e.starts /\ f.ends < e.ends
      ]_ledgerVars
=============================================================================
