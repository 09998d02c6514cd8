------------------------------- MODULE MCMoney -------------------------------
(***************************************************************************)
(* How a card-to-card transfer finds its order, and what a completed order *)
(* is worth: the card-to-card orders, and the ledger of checkouts, grants  *)
(* and commissions, with interchangeable profiles, transactions and        *)
(* orders.  A behaviour exercises one of them, chosen at the start; the     *)
(* other rests.                                                            *)
(***************************************************************************)
EXTENDS ManualPay, TLC

CONSTANTS
    Profiles, Workers,
    NPayments, NPayouts, PayoutAmounts, PriceUzs, TariffDays, BonusDays, Percent,
    PromoKinds, PromoValue, MaxUses, PerUserLimit, AttachWindow, MaxDays,
    MaxUpsets                                                  \* Ledger

VARIABLES
    part,                                                      \* the one that moves
    clock, pay, ents, redeemed, promoKind, promoOn, selling, referral, percent, ledger,
    payout, tx, upsets                                         \* Ledger

ledgerVars == <<clock, pay, ents, redeemed, promoKind, promoOn, selling, referral, percent,
                ledger, payout, tx, upsets>>

(* Every order costs the same, so the sums only differ by the offset that   *)
(* uniqueManualAmount adds.                                                 *)
MCPrice == [p \in Payments |-> 1]

(* The card's number is the first of the two.                               *)
MCFirstLast4 == [c \in Cards |-> CHOOSE n \in Numbers : TRUE]

Books == INSTANCE Ledger WITH MaxTime <- MaxDays, now <- clock

MoneyInit ==
    /\ part \in {"manual", "ledger"}
    /\ Init /\ Books!LedgerInit
    /\ part = "manual" => promoKind = "days"

ManualMoves == part = "manual" /\ Next /\ UNCHANGED <<part, ledgerVars>>
LedgerMoves == part = "ledger" /\ Books!LedgerNext /\ UNCHANGED <<part, vars>>
MoneyNext == ManualMoves \/ LedgerMoves
MoneySpec == MoneyInit /\ [][MoneyNext]_<<part, vars, ledgerVars>>

(* Bounds: a second order is only sold while nobody asks for a withdrawal   *)
(* and the console does nothing, and a card's number only changes where no  *)
(* request dies and no card is retired.                                    *)
OneAtATime ==
    /\ (\E k \in 1..NPayouts : payout[k].st # "none") \/ upsets > 0 => pay[2].st = "none"
    /\ edits > 0 => crashes = 0 /\ enabled = Cards
MoneySymmetry ==
    Permutations(Profiles) \cup Permutations(Workers) \cup Permutations(Payments)

-----------------------------------------------------------------------------
(* The books: grants add up, promo codes stay within their limits, the      *)
(* commission is settled once and no wallet is overdrawn.                   *)
LedgerInv == Books!LedgerInv

(* What was granted stands, until the very payment that bought it is        *)
(* refunded (RevokeEntitlementForPayment).                                  *)
GrantsStand == Books!GrantsStand
=============================================================================
