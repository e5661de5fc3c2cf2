----------------------------- MODULE MCCashback -----------------------------
(***************************************************************************)
(* Instances of CashbackLedger for TLC.  Payouts: two purchases of one     *)
(* player, either of which is worth a redeem if it comes first, and two    *)
(* request ids.  Rates: three purchases on three consecutive days, the     *)
(* first of which reaches the loyal threshold and is too large for the     *)
(* integer columns.  Single: one purchase.                                 *)
(***************************************************************************)
EXTENDS CashbackLedger, TLC

CONSTANTS alice, k1, k2, k3

Players == {alice}

PayoutKeys == {k1, k2}
PayoutOwner == [k \in PayoutKeys |-> alice]
PayoutSpend == k1 :> 500 @@ k2 :> 400
PayoutDay == [k \in PayoutKeys |-> 1]

SingleKey == {k1}
SingleOwner == [k \in SingleKey |-> alice]
SingleSpend == [k \in SingleKey |-> 500]
SingleDay == [k \in SingleKey |-> 1]

RateKeys == {k1, k2, k3}
RateOwner == [k \in RateKeys |-> alice]
RateSpend == k1 :> 5000 @@ k2 :> 500 @@ k3 :> 300
RateDay == k1 :> 1 @@ k2 :> 2 @@ k3 :> 3

\* Workers and request ids are interchangeable.
Symmetric == Permutations(Worker) \cup Permutations(Request)

=============================================================================
