--------------------------- MODULE CashbackLedger ---------------------------
(***************************************************************************)
(* The cashback ledger and the HTTP handlers that write it.                *)
(*                                                                         *)
(* Four handlers share three Postgres tables:                              *)
(*   POST  /v1/transactions           Transactions.Create, then Accrue     *)
(*   POST  /v1/cashback/redeems       Cashback.Redeem                      *)
(*   PATCH /v1/cashback/redeems/{id}  Cashback.ResolveRedeem               *)
(*   POST  /v1/cashback/reversals     Cashback.Reverse                     *)
(* Every statement (or explicit database transaction) is one atomic step;  *)
(* between two of them any other handler may run, and a handler may stop   *)
(* after any of them (error, crash, client gone).                          *)
(*                                                                         *)
(* A transaction row is named by its idempotency key: the column is        *)
(* unique, so a key names at most one row.                                 *)
(***************************************************************************)
EXTENDS CashbackRate, Sequences, FiniteSets, Functions

CONSTANTS
  Player,        \* user ids
  Key,           \* idempotency keys, one per purchase the game reports
  Request,       \* ids a redeem request can get
  Worker,        \* handlers that can be in flight at the same time
  Owner,         \* Owner[k]: the player who made purchase k
  Spend,         \* Spend[k]: RobuxTotal of purchase k
  Day,           \* Day[k]: the UTC day of occurredAt of purchase k
  Refundable,    \* purchases that may be refunded or charged back
  EventActive,   \* the answers ActiveEvent may give
  MaxInteger     \* the largest value of an integer column, 2^31 - 1

ASSUME LedgerConstants ==
  /\ Owner \in [Key -> Player]
  /\ Spend \in [Key -> Nat]
  /\ Day \in [Key -> Int]
  /\ Refundable \subseteq Key
  /\ EventActive \subseteq BOOLEAN
  /\ Key \cap Request = {}
  /\ MaxInteger \in Nat

VARIABLES
  recorded,      \* table transaction: keys in the order their rows committed
  ledger,        \* table cashback_entry: rows in the order they committed
  redeems,       \* table redeem_request, by request id
  call,          \* call[w]: what handler w is in the middle of
  answers        \* <<k, answer>>: 2xx answers a client got for purchase k

vars == <<recorded, ledger, redeems, call, answers>>

-----------------------------------------------------------------------------
(* Types *)

Kind == {"accrual", "reversal", "redeem", "redeem_return"}

Row == [kind : Kind, player : Player, ref : Key \cup Request,
        bonus : SUBSET Bonus, amount : Int]

RedeemRow == [player : Player, amount : Int,
              status : {"pending", "completed", "rejected"}]

Idle == [at |-> "idle"]

InsertCall  == [at : {"insert", "reread"}, key : Key]
AccrueCall  == [at : {"totals", "days", "accrue"}, key : Key,
                bonus : SUBSET Bonus, replay : BOOLEAN]
ReplyCall   == [at : {"reply"}, key : Key, replay : BOOLEAN]
ReverseCall == [at : {"reverse"}, key : Key]
RedeemCall  == [at : {"redeem"}, player : Player,
                balance : MinRedeem .. MaxInteger]

Call == {Idle} \cup InsertCall \cup AccrueCall \cup ReplyCall
          \cup ReverseCall \cup RedeemCall

Answer == {"created", "replayed"}

(* The amounts of both tables and the spend of a ledger row are integer    *)
(* columns; Go computes them in 64 bits.                                   *)
Storable == -MaxInteger .. MaxInteger

AmountsFit ==
  /\ \A i \in DOMAIN ledger : ledger[i].amount \in Storable
  /\ \A r \in DOMAIN redeems : redeems[r].amount \in Storable

TypeOK ==
  /\ recorded \in Seq(Key)
  /\ ledger \in Seq(Row)
  /\ DOMAIN redeems \subseteq Request
  /\ redeems \in [DOMAIN redeems -> RedeemRow]
  /\ call \in [Worker -> Call]
  /\ answers \subseteq Key \X Answer
  /\ AmountsFit

-----------------------------------------------------------------------------
(* What the queries of the store return *)

Recorded(k) == \E i \in DOMAIN recorded : recorded[i] = k

HasRow(kind, ref) ==
  \E i \in DOMAIN ledger : ledger[i].kind = kind /\ ledger[i].ref = ref

RowOf(kind, ref) ==
  ledger[CHOOSE i \in DOMAIN ledger :
           ledger[i].kind = kind /\ ledger[i].ref = ref]

(* SUM(amount) over the rows of a player.                                  *)
Balance(p) ==
  SumFunctionOnSet([i \in DOMAIN ledger |-> ledger[i].amount],
                   {i \in DOMAIN ledger : ledger[i].player = p})

\* Mutant: statistics taken from the ledger instead of the transactions.
HistoryFromLedger(k) ==
  {j \in Key : j # k /\ Owner[j] = Owner[k] /\ HasRow("accrual", j)}

(* The paid purchases of k's owner that SpendStats sees when k itself is   *)
(* excluded: everything on record now, whenever it was recorded.           *)
History(k) ==
  {j \in Key : j # k /\ Owner[j] = Owner[k] /\ Spend[j] > 0 /\ Recorded(j)}

LifetimeSpend(k) == SumFunctionOnSet(Spend, History(k))

SpentOn(k, d) == \E j \in History(k) : Day[j] = d

(* The game stops sending a purchase once an attempt got a 2xx.            *)
Answered(k) == \E a \in Answer : <<k, a>> \in answers

HasPending(p) ==
  \E r \in DOMAIN redeems : redeems[r].player = p /\ redeems[r].status = "pending"

-----------------------------------------------------------------------------
(* POST /v1/transactions *)

(* Where a handler goes with a transaction it found or just stored: Accrue *)
(* returns at once when nothing was spent.                                 *)
Accruing(k, replay) ==
  IF Spend[k] > 0
    THEN [at |-> "totals", key |-> k, bonus |-> {}, replay |-> replay]
    ELSE [at |-> "reply", key |-> k, replay |-> replay]

(* Create looks its key up.  A row found makes this a replay, which accrues*)
(* too; no row leads to the insert.  ByIdempotencyKey reports every error  *)
(* as "no row", so a row on record can be missed.                          *)
Lookup(w, k) ==
  /\ call[w] = Idle
  /\ ~Answered(k)
  /\ \/ /\ Recorded(k)
        /\ call' = [call EXCEPT ![w] = Accruing(k, TRUE)]
     \/ call' = [call EXCEPT ![w] = [at |-> "insert", key |-> k]]
  /\ UNCHANGED <<recorded, ledger, redeems, answers>>

(* One database transaction stores the row and its items; the unique       *)
(* column turns a second insert into ErrIdempotencyConflict.               *)
InsertTransaction(w) ==
  /\ call[w].at = "insert"
  /\ LET k == call[w].key IN
     \/ /\ ~Recorded(k)
        /\ recorded' = Append(recorded, k)
        /\ call' = [call EXCEPT ![w] = Accruing(k, FALSE)]
     \/ /\ Recorded(k)
        /\ call' = [call EXCEPT ![w] = [at |-> "reread", key |-> k]]
        /\ UNCHANGED recorded
  /\ UNCHANGED <<ledger, redeems, answers>>

(* The loser of an insert race reads the winner's row and answers with it: *)
(* a replay, with no accrual.                                              *)
RereadWinner(w) ==
  /\ call[w].at = "reread"
  /\ call' = [call EXCEPT ![w] = [at |-> "reply", key |-> call[w].key,
                                  replay |-> TRUE]]
  /\ UNCHANGED <<recorded, ledger, redeems, answers>>

(* RateFor asks for the event and then for purchase count and lifetime     *)
(* spend of the player, the purchase being rated left out.                 *)
ReadTotals(w) ==
  /\ call[w].at = "totals"
  /\ \E event \in EventActive :
       LET k == call[w].key
           active == (IF event THEN {"event"} ELSE {})
                       \cup (IF History(k) = {} THEN {"first"} ELSE {})
                       \cup (IF LifetimeSpend(k) >= LoyalSpendThreshold
                               THEN {"loyal"} ELSE {})
       IN  call' = [call EXCEPT ![w] = [at |-> "days", key |-> k, bonus |-> active,
                                        replay |-> call[w].replay]]
  /\ UNCHANGED <<recorded, ledger, redeems, answers>>

\* Mutant: the streak asks for one day more than it should.
ReadDaysOneTooMany(w) ==
  /\ call[w].at = "days"
  /\ LET k == call[w].key
         streak == \A i \in 1 .. StreakDays : SpentOn(k, Day[k] - i)
         bonus == call[w].bonus \cup (IF streak THEN {"streak"} ELSE {})
     IN  call' = [call EXCEPT ![w] = [at |-> "accrue", key |-> k, bonus |-> bonus,
                                      replay |-> call[w].replay]]
  /\ UNCHANGED <<recorded, ledger, redeems, answers>>

(* SpendStats' second query, the days on which the player spent.  It sees  *)
(* what committed since the first.                                         *)
ReadDays(w) ==
  /\ call[w].at = "days"
  /\ LET k == call[w].key
         streak == \A i \in 1 .. (StreakDays - 1) : SpentOn(k, Day[k] - i)
         bonus == call[w].bonus \cup (IF streak THEN {"streak"} ELSE {})
     IN  call' = [call EXCEPT ![w] = [at |-> "accrue", key |-> k, bonus |-> bonus,
                                      replay |-> call[w].replay]]
  /\ UNCHANGED <<recorded, ledger, redeems, answers>>

\* A ledger row of purchase k.
Entry(kind, k, bonus, amount) ==
  [kind |-> kind, player |-> Owner[k], ref |-> k, bonus |-> bonus, amount |-> amount]

\* Mutant: the unique index on (tx_id, kind) is missing.
CreateEntryNoIndex(kind, k, bonus, spend, amount) ==
  /\ spend \in Storable /\ amount \in Storable
  /\ ledger' = Append(ledger, Entry(kind, k, bonus, amount))


(* CreateEntry: one row per (transaction, kind), by a unique index.  A     *)
(* duplicate is refused and the ledger stays as it is.  A number that its  *)
(* column cannot hold makes the insert fail, on this and on every later    *)
(* attempt: all that is left to the handler is Fail.                       *)
CreateEntry(kind, k, bonus, spend, amount) ==
  /\ spend \in Storable /\ amount \in Storable
  /\ IF HasRow(kind, k)
       THEN UNCHANGED ledger
       ELSE ledger' = Append(ledger, Entry(kind, k, bonus, amount))

\* Mutant: a failed accrual is logged and the purchase answered all the same.
AccrueErrorSwallowed(w) ==
  /\ call[w].at = "accrue"
  /\ LET k == call[w].key
     IN  /\ \/ CreateEntry("accrual", k, call[w].bonus, Spend[k],
                           CashbackAmount(Spend[k], call[w].bonus))
            \/ UNCHANGED ledger
         /\ call' = [call EXCEPT ![w] = [at |-> "reply", key |-> k,
                                         replay |-> call[w].replay]]
  /\ UNCHANGED <<recorded, redeems, answers>>

(* Accrue writes its row; that the row exists already is a replay, not an  *)
(* error.                                                                  *)
Accrue(w) ==
  /\ call[w].at = "accrue"
  /\ LET k == call[w].key
     IN  /\ CreateEntry("accrual", k, call[w].bonus, Spend[k],
                        CashbackAmount(Spend[k], call[w].bonus))
         /\ call' = [call EXCEPT ![w] = [at |-> "reply", key |-> k,
                                         replay |-> call[w].replay]]
  /\ UNCHANGED <<recorded, redeems, answers>>

(* The answer reaches the client: 201 for a new purchase, 200 for a replay.*)
Reply(w) ==
  /\ call[w].at = "reply"
  /\ answers' = answers \cup
       {<<call[w].key, IF call[w].replay THEN "replayed" ELSE "created">>}
  /\ call' = [call EXCEPT ![w] = Idle]
  /\ UNCHANGED <<recorded, ledger, redeems>>

-----------------------------------------------------------------------------
(* POST /v1/cashback/redeems *)

\* Mutant: the minimum is not checked.
ReadBalanceUnchecked(w, p) ==
  /\ call[w] = Idle
  /\ call' = [call EXCEPT ![w] = [at |-> "redeem", player |-> p,
                                  balance |-> Balance(p)]]
  /\ UNCHANGED <<recorded, ledger, redeems, answers>>

(* Redeem reads the balance and refuses one below the minimum.  A balance  *)
(* beyond MaxInteger makes the insert that follows fail, with no effect.   *)
ReadBalance(w, p) ==
  /\ call[w] = Idle
  /\ Balance(p) \in MinRedeem .. MaxInteger
  /\ call' = [call EXCEPT ![w] = [at |-> "redeem", player |-> p,
                                  balance |-> Balance(p)]]
  /\ UNCHANGED <<recorded, ledger, redeems, answers>>

\* What CreateRedeem inserts: a pending request and its deduction.
InsertRedeem(r, p, asked, deducted) ==
  /\ redeems' = [x \in DOMAIN redeems \cup {r} |->
                   IF x = r THEN [player |-> p, amount |-> asked,
                                  status |-> "pending"]
                            ELSE redeems[x]]
  /\ ledger' = Append(ledger, [kind |-> "redeem", player |-> p, ref |-> r,
                               bonus |-> {}, amount |-> -deducted])

\* Mutant: the partial unique index is missing.
CreateRedeemNoIndex(w) ==
  /\ call[w].at = "redeem"
  /\ \E r \in Request \ DOMAIN redeems :
       InsertRedeem(r, call[w].player, call[w].balance, call[w].balance)
  /\ call' = [call EXCEPT ![w] = Idle]
  /\ UNCHANGED <<recorded, answers>>

\* Mutant: the deduction is computed from the balance of the moment.
CreateRedeemRereads(w) ==
  /\ call[w].at = "redeem"
  /\ LET p == call[w].player
     IN  \/ /\ ~HasPending(p)
            /\ \E r \in Request \ DOMAIN redeems :
                 InsertRedeem(r, p, call[w].balance, Balance(p))
         \/ /\ HasPending(p)
            /\ UNCHANGED <<redeems, ledger>>
  /\ call' = [call EXCEPT ![w] = Idle]
  /\ UNCHANGED <<recorded, answers>>

(* One database transaction stores the pending request for the balance     *)
(* read before and the row that deducts it; the partial unique index       *)
(* refuses a second pending request of the player, which ends in a 409.    *)
CreateRedeem(w) ==
  /\ call[w].at = "redeem"
  /\ LET p == call[w].player
     IN  \/ /\ ~HasPending(p)
            /\ \E r \in Request \ DOMAIN redeems :
                 InsertRedeem(r, p, call[w].balance, call[w].balance)
         \/ /\ HasPending(p)
            /\ UNCHANGED <<redeems, ledger>>
  /\ call' = [call EXCEPT ![w] = Idle]
  /\ UNCHANGED <<recorded, answers>>

\* UPDATE redeem_request SET status, the player and the amount staying.
SetStatus(r, status) ==
  redeems' = [redeems EXCEPT ![r] = [player |-> redeems[r].player,
                                     amount |-> redeems[r].amount,
                                     status |-> status]]

\* Mutant: a rejection forgets the return row.
ResolveWithoutReturn(r, status) ==
  /\ r \in DOMAIN redeems
  /\ redeems[r].status = "pending"
  /\ SetStatus(r, status)
  /\ UNCHANGED <<recorded, ledger, call, answers>>

\* Mutant: the last resolution wins over an earlier one.
ResolveLastWins(r, status) ==
  /\ r \in DOMAIN redeems
  /\ redeems[r].status # status
  /\ SetStatus(r, status)
  /\ IF status = "rejected"
       THEN ledger' = Append(ledger,
              [kind |-> "redeem_return", player |-> redeems[r].player,
               ref |-> r, bonus |-> {}, amount |-> redeems[r].amount])
       ELSE UNCHANGED ledger
  /\ UNCHANGED <<recorded, call, answers>>

(* ResolveRedeem runs in one database transaction with the row locked.     *)
(* Only a pending request changes: the same status again is a no-op, a     *)
(* different one a 409.  A rejection pays the deduction back.              *)
ResolveRedeem(r, status) ==
  /\ r \in DOMAIN redeems
  /\ redeems[r].status = "pending"
  /\ SetStatus(r, status)
  /\ IF status = "rejected"
       THEN ledger' = Append(ledger,
              [kind |-> "redeem_return", player |-> redeems[r].player,
               ref |-> r, bonus |-> {}, amount |-> redeems[r].amount])
       ELSE UNCHANGED ledger
  /\ UNCHANGED <<recorded, call, answers>>

-----------------------------------------------------------------------------
(* POST /v1/cashback/reversals *)

(* Reverse looks for the accrual of a purchase; none is a 404.             *)
FindAccrual(w, k) ==
  /\ call[w] = Idle
  /\ HasRow("accrual", k)
  /\ call' = [call EXCEPT ![w] = [at |-> "reverse", key |-> k]]
  /\ UNCHANGED <<recorded, ledger, redeems, answers>>

\* Mutant: the amount is computed again, at the base rate.
ReverseAtBaseRate(w) ==
  /\ call[w].at = "reverse"
  /\ LET k == call[w].key
     IN  CreateEntry("reversal", k, {}, 0, -CashbackAmount(Spend[k], {}))
  /\ call' = [call EXCEPT ![w] = Idle]
  /\ UNCHANGED <<recorded, redeems, answers>>

(* It then writes the opposite amount; a duplicate is answered with the    *)
(* reversal on record.                                                     *)
Reverse(w) ==
  /\ call[w].at = "reverse"
  /\ LET k == call[w].key
     IN  CreateEntry("reversal", k, {}, 0, -RowOf("accrual", k).amount)
  /\ call' = [call EXCEPT ![w] = Idle]
  /\ UNCHANGED <<recorded, redeems, answers>>

-----------------------------------------------------------------------------
(* A handler stops where it is: a database error answered with a 5xx, a    *)
(* crash, a request cancelled by its client, or an answer lost on the way. *)
(* What it committed stays.                                                *)
Fail(w) ==
  /\ call[w] # Idle
  /\ call' = [call EXCEPT ![w] = Idle]
  /\ UNCHANGED <<recorded, ledger, redeems, answers>>

Init ==
  /\ recorded = <<>>
  /\ ledger = <<>>
  /\ redeems = [r \in {} |-> {}]
  /\ call = [w \in Worker |-> Idle]
  /\ answers = {}

Purchase(w) ==
  \/ InsertTransaction(w)
  \/ RereadWinner(w)
  \/ ReadTotals(w)
  \/ ReadDays(w)
  \/ Accrue(w)
  \/ Reply(w)

Next ==
  \/ \E w \in Worker :
       \/ \E k \in Key : Lookup(w, k)
       \/ \E k \in Refundable : FindAccrual(w, k)
       \/ \E p \in Player : ReadBalance(w, p)
       \/ Purchase(w)
       \/ CreateRedeem(w)
       \/ Reverse(w)
       \/ Fail(w)
  \/ \E r \in Request, status \in {"completed", "rejected"} :
       ResolveRedeem(r, status)

Spec == Init /\ [][Next]_vars

-----------------------------------------------------------------------------
(***************************************************************************)
(* Invariants                                                              *)
(***************************************************************************)

(* Purchases of k's owner, with a spend, recorded before k was.            *)
Before(k) ==
  {j \in History(k) : \E m, n \in DOMAIN recorded :
                        m < n /\ recorded[m] = j /\ recorded[n] = k}

AccrualRows == {i \in DOMAIN ledger : ledger[i].kind = "accrual"}

(* No retry, race or replay gives a purchase a second accrual or reversal, *)
(* or a redeem request a second deduction or return.                       *)
UniqueRows ==
  \A i, j \in DOMAIN ledger :
    ledger[i].kind = ledger[j].kind /\ ledger[i].ref = ledger[j].ref => i = j

(* An accrual belongs to a purchase on record, with the amount its rate    *)
(* gives, and is credited to the one who bought.                           *)
AccrualExplained(e) ==
  /\ e.ref \in Key /\ Recorded(e.ref) /\ Spend[e.ref] > 0
  /\ e.player = Owner[e.ref]
  /\ e.amount = CashbackAmount(Spend[e.ref], e.bonus)

(* A reversal takes back exactly what an earlier accrual gave.             *)
ReversalExplained(i) ==
  \E j \in 1 .. (i - 1) :
    /\ ledger[j].kind = "accrual" /\ ledger[j].ref = ledger[i].ref
    /\ ledger[j].player = ledger[i].player
    /\ ledger[j].amount = -ledger[i].amount

(* A deduction or return carries the amount of its request.                *)
RequestExplained(e) ==
  /\ e.ref \in DOMAIN redeems
  /\ e.player = redeems[e.ref].player
  /\ e.amount = IF e.kind = "redeem" THEN -redeems[e.ref].amount
                                     ELSE redeems[e.ref].amount

(* Every ledger row has the cause its kind names, whatever handlers were   *)
(* interrupted on the way (Accrue, Reverse, Redeem, ResolveRedeem).        *)
RowsExplained ==
  \A i \in DOMAIN ledger :
    /\ ledger[i].kind = "accrual" => AccrualExplained(ledger[i])
    /\ ledger[i].kind = "reversal" => ReversalExplained(i)
    /\ ledger[i].kind \in {"redeem", "redeem_return"} => RequestExplained(ledger[i])

(* The other way round: every request was paid for by a deduction, and     *)
(* exactly the rejected ones were paid back (CreateRedeem, ResolveRedeem). *)
RequestsBacked ==
  \A r \in DOMAIN redeems :
    /\ HasRow("redeem", r)
    /\ HasRow("redeem_return", r) <=> redeems[r].status = "rejected"

(* A player waits for at most one redeem request, however many handlers    *)
(* checked at the same time (unique index redeem_request_pending_key).     *)
OnePendingPerPlayer ==
  \A q, r \in DOMAIN redeems :
    /\ redeems[q].player = redeems[r].player
    /\ redeems[q].status = "pending" /\ redeems[r].status = "pending"
    => q = r

(* The amounts of a set of ledger rows, and of a set of requests.          *)
Total(rows) == SumFunctionOnSet([i \in DOMAIN ledger |-> ledger[i].amount], rows)

Earned(p) == Total({i \in AccrualRows : ledger[i].player = p})

Claimed(p) ==
  SumFunctionOnSet([r \in DOMAIN redeems |-> redeems[r].amount],
                   {r \in DOMAIN redeems : /\ redeems[r].player = p
                                           /\ redeems[r].status # "rejected"})

(* SUM(amount) is what the purchases not reversed earned, minus the        *)
(* requests that are pending or paid out: the balance the README promises. *)
BalanceReconciles ==
  \A p \in Player :
    Balance(p) = Total({i \in AccrualRows :
                          /\ ledger[i].player = p
                          /\ ~HasRow("reversal", ledger[i].ref)})
                   - Claimed(p)

(* Two purchases of a player are never both rated as the first one, even   *)
(* when they are recorded and rated at the same time: RateFor reads the    *)
(* transaction table after the row it rates has been committed.            *)
FirstBonusAtMostOnce ==
  \A i, j \in AccrualRows :
    /\ ledger[i].player = ledger[j].player
    /\ "first" \in ledger[i].bonus /\ "first" \in ledger[j].bonus
    => i = j

(* A late accrual (retry after a crash, slow handler) never loses a bonus  *)
(* that the history before the purchase had earned: loyal by its total,    *)
(* streak by its days.                                                     *)
NoEarnedBonusLost ==
  \A i \in AccrualRows :
    LET k == ledger[i].ref IN
    /\ SumFunctionOnSet(Spend, Before(k)) >= LoyalSpendThreshold
         => "loyal" \in ledger[i].bonus
    /\ (\A d \in 1 .. (StreakDays - 1) : \E j \in Before(k) : Day[j] = Day[k] - d)
         => "streak" \in ledger[i].bonus

(* A client that was told 201 has its cashback on the ledger.              *)
CreatedMeansAccrued ==
  \A k \in Key :
    <<k, "created">> \in answers /\ Spend[k] > 0 => HasRow("accrual", k)

-----------------------------------------------------------------------------
(***************************************************************************)
(* Action properties                                                       *)
(***************************************************************************)

(* The ledger only grows at its end and a settled request never changes,   *)
(* whoever resolves it again: no PATCH after completion or rejection, and  *)
(* no rewriting of past rows.                                              *)
LedgerAppendOnly ==
  /\ Len(ledger) <= Len(ledger')
  /\ \A i \in DOMAIN ledger : ledger'[i] = ledger[i]

RequestsSettleOnce ==
  \A r \in DOMAIN redeems :
    /\ r \in DOMAIN redeems'
    /\ redeems'[r].amount = redeems[r].amount
    /\ redeems[r].status # "pending" => redeems'[r] = redeems[r]

HistoryIsFinal == [][LedgerAppendOnly /\ RequestsSettleOnce]_vars

-----------------------------------------------------------------------------
(***************************************************************************)
(* Refinement: the account that the ledger's rows add up to.               *)
(***************************************************************************)

CreditOf(k) ==
  IF ~HasRow("accrual", k) THEN [state |-> "none", amount |-> 0]
  ELSE [state |-> IF HasRow("reversal", k) THEN "reversed" ELSE "credited",
        amount |-> RowOf("accrual", k).amount]

PayoutOf(r) ==
  IF r \in DOMAIN redeems
    THEN [status |-> redeems[r].status, player |-> redeems[r].player,
          amount |-> redeems[r].amount]
    ELSE [status |-> "none"]

Account == INSTANCE CashbackAccount WITH
  balance <- [p \in Player |-> Balance(p)],
  credit  <- [k \in Key |-> CreditOf(k)],
  payout  <- [r \in Request |-> PayoutOf(r)]

(* However handlers interleave and fail, the ledger behaves like one       *)
(* account per player: a step that writes to its two tables is a step of   *)
(* the account.                                                            *)
ImplementsAccount ==
  Account!Init /\ [][UNCHANGED <<ledger, redeems>> \/ Account!Next]_vars

-----------------------------------------------------------------------------
(***************************************************************************)
(* What comments and documentation say and the code does not keep.         *)
(***************************************************************************)

(* "no window in which the same balance is cashed out twice" (Redeem): a   *)
(* player's pending and paid requests never exceed what he ever earned.    *)
SameBalanceNotClaimedTwice == \A p \in Player : Claimed(p) <= Earned(p)

(* "first and loyal are judged from the history BEFORE that transaction"   *)
(* (RateFor).                                                              *)
RatedByHistoryBefore ==
  \A i \in AccrualRows :
    LET k == ledger[i].ref IN
    /\ "first" \in ledger[i].bonus <=> Before(k) = {}
    /\ "loyal" \in ledger[i].bonus
         <=> SumFunctionOnSet(Spend, Before(k)) >= LoyalSpendThreshold

\* A handler works on purchase k.
InFlight(k) ==
  \E w \in Worker : call[w].at \notin {"idle", "redeem"} /\ call[w].key = k

(* "the replay path completes an accrual that failed" (Transactions.Create *)
(* and README): a client that got its 2xx, 200 for a replay included, need *)
(* not send the purchase again for its cashback to be recorded.            *)
AnsweredMeansAccrued ==
  \A k \in Key :
    Spend[k] > 0 /\ Answered(k) /\ ~InFlight(k) => HasRow("accrual", k)

=============================================================================
