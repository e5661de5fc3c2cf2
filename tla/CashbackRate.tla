---------------------------- MODULE CashbackRate ----------------------------
(***************************************************************************)
(* The percentages of the cashback programme and the amount one purchase   *)
(* earns: service/cashback.go, RateFor's sum and Accrue's rounding.  The   *)
(* whole module is constant-level; which bonuses are active is decided by  *)
(* CashbackLedger from the purchases on record.                            *)
(***************************************************************************)
EXTENDS Integers

BaseRatePercent == 20
MaxRatePercent == 40

EventBonusPercent == 10
StreakBonusPercent == 5
FirstBonusPercent == 10
LoyalBonusPercent == 5

(* Lifetime spend from which the loyal bonus applies, and the smallest     *)
(* balance that can be redeemed, both in Robux.                            *)
LoyalSpendThreshold == 5000
MinRedeem == 100

(* Length of the run of shopping days that earns the streak bonus, the day *)
(* of the purchase itself included.                                        *)
StreakDays == 3

Bonus == {"event", "streak", "first", "loyal"}

BonusPercent ==
  [event |-> EventBonusPercent, streak |-> StreakBonusPercent,
   first |-> FirstBonusPercent, loyal |-> LoyalBonusPercent]

(* The base rate plus every active bonus, before the cap.                  *)
UncappedPercent(active) ==
  BaseRatePercent
    + (IF "event"  \in active THEN BonusPercent["event"]  ELSE 0)
    + (IF "streak" \in active THEN BonusPercent["streak"] ELSE 0)
    + (IF "first"  \in active THEN BonusPercent["first"]  ELSE 0)
    + (IF "loyal"  \in active THEN BonusPercent["loyal"]  ELSE 0)

(* The rate a set of active bonuses gives: never above the hard cap.       *)
Percent(active) ==
  IF UncappedPercent(active) > MaxRatePercent
    THEN MaxRatePercent
    ELSE UncappedPercent(active)

(* spend * rate / 100, Go's integer division of non-negative operands.     *)
CashbackAmount(spend, active) == (spend * Percent(active)) \div 100

=============================================================================
