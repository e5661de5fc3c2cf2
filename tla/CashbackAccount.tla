--------------------------- MODULE CashbackAccount ---------------------------
(***************************************************************************)
(* What cashback promises, without handlers, statements or ledger rows:    *)
(* each purchase is credited at most once and reversed at most once, each  *)
(* redeem request takes its amount out of the account once and puts it     *)
(* back exactly when it is rejected, and the balance is the running total. *)
(*                                                                         *)
(* CashbackLedger implements it: its balance is SUM(amount) over the rows  *)
(* of a player.                                                            *)
(***************************************************************************)
EXTENDS CashbackRate, Functions

CONSTANTS Player, Key, Request, Owner, Spend

VARIABLES
  balance,       \* balance[p]
  credit,        \* credit[k]: state of purchase k and the amount it earned
  payout         \* payout[r]: a request's player, amount and status

vars == <<balance, credit, payout>>

NoCredit == [state |-> "none", amount |-> 0]
NoPayout == [status |-> "none"]

Init ==
  /\ balance = [p \in Player |-> 0]
  /\ credit = [k \in Key |-> NoCredit]
  /\ payout = [r \in Request |-> NoPayout]

(* A purchase earns once, by the rate of its bonuses.                      *)
MayEarn(k) == credit[k] = NoCredit /\ Spend[k] > 0

Credit(k, active) ==
  LET amount == CashbackAmount(Spend[k], active) IN
  /\ MayEarn(k)
  /\ credit' = [credit EXCEPT ![k] = [state |-> "credited", amount |-> amount]]
  /\ balance' = [balance EXCEPT ![Owner[k]] = @ + amount]
  /\ UNCHANGED payout

TakeBack(k) ==
  /\ credit[k].state = "credited"
  /\ credit' = [credit EXCEPT ![k].state = "reversed"]
  /\ balance' = [balance EXCEPT ![Owner[k]] = @ - credit[k].amount]
  /\ UNCHANGED payout

(* What p's purchases earned so far, reversed ones included.               *)
Earnings(p) ==
  SumFunctionOnSet([k \in Key |-> credit[k].amount], {k \in Key : Owner[k] = p})

(* A request can be made while no other request of the player waits.       *)
MayAsk(r, p) ==
  /\ payout[r] = NoPayout
  /\ \A q \in Request : payout[q].status = "pending" => payout[q].player # p

(* It asks for at least the minimum, and at most for what the player's     *)
(* purchases ever earned.                                                  *)
Ask(r, p, amount) ==
  /\ MayAsk(r, p)
  /\ payout' = [payout EXCEPT ![r] =
                  [status |-> "pending", player |-> p, amount |-> amount]]
  /\ balance' = [balance EXCEPT ![p] = @ - amount]
  /\ UNCHANGED credit

Pay(r) ==
  /\ payout[r].status = "pending"
  /\ payout' = [payout EXCEPT ![r].status = "completed"]
  /\ UNCHANGED <<balance, credit>>

Refuse(r) ==
  /\ payout[r].status = "pending"
  /\ payout' = [payout EXCEPT ![r].status = "rejected"]
  /\ balance' = [balance EXCEPT ![payout[r].player] = @ + payout[r].amount]
  /\ UNCHANGED credit

Next ==
  \/ \E r \in Request : Pay(r) \/ Refuse(r)
  \/ \E k \in Key :
       \/ TakeBack(k)
       \/ MayEarn(k) /\ \E active \in SUBSET Bonus : Credit(k, active)
  \/ \E r \in Request, p \in Player :
       /\ MayAsk(r, p)
       /\ \E amount \in MinRedeem .. Earnings(p) : Ask(r, p, amount)

Spec == Init /\ [][Next]_vars
==============================================================================
