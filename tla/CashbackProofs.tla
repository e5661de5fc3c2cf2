--------------------------- MODULE CashbackProofs ---------------------------
(***************************************************************************)
(* Theorems about CashbackLedger, for any players, purchases, request ids  *)
(* and number of handlers in flight.                                       *)
(*                                                                         *)
(* No safety invariant is inductive alone: a handler acts on what it read  *)
(* several statements ago, so what a handler in flight may rely on is part *)
(* of the invariant (HandlersReady), and so is the reason why a rating is  *)
(* final (FirstRated).  Three more invariants rest on that one: balances   *)
(* (BalanceInv), bonuses (BonusInv), and the refinement of CashbackAccount *)
(* (AccountInv).                                                           *)
(***************************************************************************)
EXTENDS CashbackLedger, FiniteSetTheorems, TLAPS

-----------------------------------------------------------------------------
(***************************************************************************)
(* Rates and amounts                                                       *)
(***************************************************************************)

(* Whatever bonuses are active, the rate lies between base and cap.        *)
LEMMA PercentBounds ==
  ASSUME NEW active
  PROVE  /\ Percent(active) \in Nat
         /\ BaseRatePercent <= Percent(active)
         /\ Percent(active) <= MaxRatePercent
BY DEF Percent, UncappedPercent, BonusPercent, BaseRatePercent, MaxRatePercent,
       EventBonusPercent, StreakBonusPercent, FirstBonusPercent, LoyalBonusPercent

(* The rate is one of five values, which makes the amount linear.          *)
LEMMA PercentValues ==
  ASSUME NEW active
  PROVE  Percent(active) \in {20, 25, 30, 35, 40}
BY DEF Percent, UncappedPercent, BonusPercent, BaseRatePercent, MaxRatePercent,
       EventBonusPercent, StreakBonusPercent, FirstBonusPercent, LoyalBonusPercent

(* An accrual is worth at least a fifth of the spend, rounded down, and at *)
(* most two fifths of it: "cashback up to 40%".                            *)
THEOREM AmountBounds ==
  ASSUME NEW spend \in Nat, NEW active
  PROVE  /\ CashbackAmount(spend, active) \in Nat
         /\ (20 * spend) \div 100 <= CashbackAmount(spend, active)
         /\ 100 * CashbackAmount(spend, active) <= 40 * spend
<1>1. CASE Percent(active) = 20
  BY <1>1 DEF CashbackAmount
<1>2. CASE Percent(active) = 25
  BY <1>2 DEF CashbackAmount
<1>3. CASE Percent(active) = 30
  BY <1>3 DEF CashbackAmount
<1>4. CASE Percent(active) = 35
  BY <1>4 DEF CashbackAmount
<1>5. CASE Percent(active) = 40
  BY <1>5 DEF CashbackAmount
<1> QED
  BY PercentValues, <1>1, <1>2, <1>3, <1>4, <1>5

-----------------------------------------------------------------------------
(***************************************************************************)
(* Sums over finite sets.  SumFunctionOnSet is recursive, and no induction *)
(* principle can be instantiated here: its equations follow from the       *)
(* smallest set on which they would fail.                                  *)
(***************************************************************************)

(* Among the sets of a non-empty family of subsets of a finite set there   *)
(* is one with no proper subset in the family: what stands in for          *)
(* induction over sets here.                                               *)
LEMMA MinimalSet ==
  ASSUME NEW S, IsFiniteSet(S), NEW B, B \subseteq SUBSET S, B # {}
  PROVE  \E T \in B : \A U \in SUBSET T : U # T => U \notin B
<1>1. IsWellFoundedOn(StrictSubsetOrdering(S), SUBSET S)
  BY FS_StrictSubsetOrderingWellFounded, FS_FiniteSubsetsOfFinite
<1>2. PICK T \in B : \A U \in B : ~(<<U, T>> \in StrictSubsetOrdering(S))
  <2> DEFINE R == StrictSubsetOrdering(S)
  <2> HIDE DEF R
  <2>1. IsWellFoundedOn(R, SUBSET S)
    BY <1>1 DEF R
  <2>2. \E T \in B : \A U \in B : ~(<<U, T>> \in R)
    BY <2>1, WFMin
  <2> QED
    BY <2>2 DEF R
<1> QED
  BY <1>2 DEF StrictSubsetOrdering

(* The element MapThenFoldSet takes first, and its recursive equation on   *)
(* the subsets of T.                                                       *)
Pick(s) == CHOOSE x \in s : TRUE

SumEq(h, g, T) ==
  h = [s \in SUBSET T |-> IF s = {} THEN 0 ELSE g[Pick(s)] + h[s \ {Pick(s)}]]

LEMMA SumIs ==
  ASSUME NEW g, NEW T
  PROVE  SumFunctionOnSet(g, T) = (CHOOSE h : SumEq(h, g, T))[T]
BY DEF SumFunctionOnSet, FoldFunctionOnSet, MapThenFoldSet, SumEq, Pick

LEMMA PickIn == ASSUME NEW s, s # {} PROVE Pick(s) \in s
BY DEF Pick

LEMMA SumEqAt ==
  ASSUME NEW g, NEW T, NEW h, SumEq(h, g, T), NEW s, s \subseteq T
  PROVE  h[s] = IF s = {} THEN 0 ELSE g[Pick(s)] + h[s \ {Pick(s)}]
BY DEF SumEq

(* The equation has one solution: where two differ there is a smallest set *)
(* on which they do.                                                       *)
LEMMA SumEqUnique ==
  ASSUME NEW g, NEW T, IsFiniteSet(T), NEW h1, SumEq(h1, g, T), NEW h2, SumEq(h2, g, T)
  PROVE  h1 = h2
<1> DEFINE B == {s \in SUBSET T : h1[s] # h2[s]}
<1>1. B = {}
  <2> SUFFICES ASSUME B # {} PROVE FALSE
    OBVIOUS
  <2>0. B \subseteq SUBSET T
    OBVIOUS
  <2> HIDE DEF B
  <2>1. PICK s \in B : \A U \in SUBSET s : U # s => U \notin B
    BY <2>0, MinimalSet
  <2> USE DEF B
  <2>2. s # {}
    <3>1. h1[{}] = 0 /\ h2[{}] = 0
      BY SumEqAt
    <3> QED
      BY <3>1
  <2>3. Pick(s) \in s
    BY <2>2, PickIn
  <2>4. h1[s \ {Pick(s)}] = h2[s \ {Pick(s)}]
    BY <2>1, <2>3
  <2> QED
    BY <2>2, <2>4, SumEqAt
<1>2. /\ h1 = [s \in SUBSET T |-> h1[s]] /\ h2 = [s \in SUBSET T |-> h2[s]]
  BY DEF SumEq
<1> QED
  BY <1>1, <1>2

(* A function that satisfies the equation on the subsets of T holds their  *)
(* sums.                                                                   *)
LEMMA SumEqHoldsSums ==
  ASSUME NEW g, NEW T, IsFiniteSet(T), NEW h, SumEq(h, g, T), NEW U, U \subseteq T
  PROVE  h[U] = SumFunctionOnSet(g, U)
<1> DEFINE r == [s \in SUBSET U |-> h[s]]
<1>1. SumEq(r, g, U)
  <2>1. r = [s \in SUBSET U |-> IF s = {} THEN 0 ELSE g[Pick(s)] + r[s \ {Pick(s)}]]
    <3>1. ASSUME NEW s \in SUBSET U
          PROVE  h[s] = IF s = {} THEN 0 ELSE g[Pick(s)] + r[s \ {Pick(s)}]
      <4>1. r[s \ {Pick(s)}] = h[s \ {Pick(s)}] /\ s \subseteq T
        OBVIOUS
      <4>2. h[s] = IF s = {} THEN 0 ELSE g[Pick(s)] + h[s \ {Pick(s)}]
        BY <4>1, SumEqAt
      <4> HIDE DEF r
      <4> QED
        BY <4>1, <4>2
    <3> QED
      BY <3>1
  <2> HIDE DEF r
  <2> QED
    BY <2>1 DEF SumEq
<1> HIDE DEF r
<1>2. SumEq(CHOOSE f : SumEq(f, g, U), g, U)
  BY <1>1
<1>3. (CHOOSE f : SumEq(f, g, U)) = r
  BY <1>1, <1>2, SumEqUnique, FS_Subset
<1> QED
  BY <1>3, SumIs DEF r

(* So a sum takes its chosen element first, if the equation has a solution *)
(* at all,                                                                 *)
LEMMA SumUnfolds ==
  ASSUME NEW g, NEW T, IsFiniteSet(T), NEW h, SumEq(h, g, T), T # {}
  PROVE  SumFunctionOnSet(g, T) = g[Pick(T)] + SumFunctionOnSet(g, T \ {Pick(T)})
<1>0. PICK U : U = T \ {Pick(T)}
  OBVIOUS
<1>1. \A V : V \subseteq T => h[V] = SumFunctionOnSet(g, V)
  BY SumEqHoldsSums
<1>2. T \subseteq T /\ U \subseteq T
  BY <1>0
<1>3. h[T] = g[Pick(T)] + h[U]
  BY <1>0, SumEqAt
<1> QED
  BY <1>0, <1>1, <1>2, <1>3

(* which it has: on a smallest set without one, the sums of the smaller    *)
(* sets would make one.                                                    *)
LEMMA SumEqExists ==
  ASSUME NEW g, NEW S, IsFiniteSet(S)
  PROVE  \E h : SumEq(h, g, S)
<1> DEFINE B == {T \in SUBSET S : ~\E h : SumEq(h, g, T)}
<1> SUFFICES ASSUME B # {} PROVE FALSE
  OBVIOUS
<1>0. B \subseteq SUBSET S
  OBVIOUS
<1> HIDE DEF B
<1>1. PICK T \in B : \A U \in SUBSET T : U # T => U \notin B
  BY <1>0, MinimalSet
<1> USE DEF B
<1>2. ASSUME NEW U \in SUBSET T, U # T, U # {}
      PROVE  SumFunctionOnSet(g, U) = g[Pick(U)] + SumFunctionOnSet(g, U \ {Pick(U)})
  <2>1. PICK h : SumEq(h, g, U)
    BY <1>1, <1>2
  <2>2. IsFiniteSet(U)
    BY FS_Subset, <1>1
  <2> QED
    BY <1>2, <2>1, <2>2, SumUnfolds
<1>3. SumFunctionOnSet(g, {}) = 0 \/ T = {}
  <2> SUFFICES ASSUME T # {} PROVE SumFunctionOnSet(g, {}) = 0
    OBVIOUS
  <2>1. PICK h : SumEq(h, g, {})
    BY <1>1
  <2>2. h[{}] = 0
    BY <2>1, SumEqAt
  <2> QED
    BY <2>1, <2>2, SumEqHoldsSums, FS_EmptySet
<1>4. T # {}
  <2>1. SumEq([s \in SUBSET {} |-> 0], g, {})
    BY DEF SumEq
  <2> QED
    BY <2>1, <1>1
<1> DEFINE F(s) == IF s = T THEN g[Pick(T)] + SumFunctionOnSet(g, T \ {Pick(T)})
                            ELSE SumFunctionOnSet(g, s)
           h == [s \in SUBSET T |-> F(s)]
<1>5. ASSUME NEW s \in SUBSET T
      PROVE  F(s) = IF s = {} THEN 0 ELSE g[Pick(s)] + h[s \ {Pick(s)}]
  <2>1. CASE s = {}
    BY <1>3, <1>4, <2>1
  <2>2. CASE s # {}
    <3>1. s \ {Pick(s)} # T /\ s \ {Pick(s)} \in SUBSET T
      BY <2>2, PickIn
    <3>2. h[s \ {Pick(s)}] = SumFunctionOnSet(g, s \ {Pick(s)})
      BY <3>1
    <3> QED
      BY <1>2, <2>2, <3>2
  <2> QED
    BY <2>1, <2>2
<1>6. h = [s \in SUBSET T |-> IF s = {} THEN 0 ELSE g[Pick(s)] + h[s \ {Pick(s)}]]
  BY <1>5
<1> HIDE DEF h
<1>7. SumEq(h, g, T)
  BY <1>6 DEF SumEq
<1> QED
  BY <1>1, <1>7

(* The equations of a sum over a finite set.                               *)
LEMMA SumOfNone ==
  ASSUME NEW g
  PROVE  SumFunctionOnSet(g, {}) = 0
BY SumEqExists, SumEqAt, SumEqHoldsSums, FS_EmptySet

LEMMA SumOfSome ==
  ASSUME NEW g, NEW T, IsFiniteSet(T), T # {}
  PROVE  SumFunctionOnSet(g, T) = g[Pick(T)] + SumFunctionOnSet(g, T \ {Pick(T)})
BY SumEqExists, SumUnfolds

(* The smallest counterexample: from a claim about sums that holds of the  *)
(* empty set and fails for some part of a finite set, a part that fails    *)
(* while it holds of that part without the element the sum takes first.    *)
LEMMA Smallest ==
  ASSUME NEW S, IsFiniteSet(S), NEW B, B \subseteq SUBSET S, B # {}, {} \notin B
  PROVE  \E T \in B : /\ T \subseteq S /\ T # {} /\ IsFiniteSet(T)
                     /\ Pick(T) \in T /\ T \ {Pick(T)} \notin B
<1>1. PICK T \in B : \A U \in SUBSET T : U # T => U \notin B
  BY MinimalSet
<1>2. T \subseteq S /\ T # {} /\ IsFiniteSet(T)
  BY FS_Subset
<1>3. Pick(T) \in T
  BY <1>2, PickIn
<1> QED
  BY <1>1, <1>2, <1>3

(* A sum of integers is an integer, of naturals a natural.                 *)
LEMMA SumIsInt ==
  ASSUME NEW g, NEW S, IsFiniteSet(S), \A x \in S : g[x] \in Int
  PROVE  SumFunctionOnSet(g, S) \in Int
<1> DEFINE B == {T \in SUBSET S : SumFunctionOnSet(g, T) \notin Int}
<1> SUFFICES ASSUME B # {} PROVE FALSE
  OBVIOUS
<1>1. B \subseteq SUBSET S /\ {} \notin B
  BY SumOfNone
<1> HIDE DEF B
<1>2. PICK T \in B : /\ T \subseteq S /\ T # {} /\ IsFiniteSet(T)
                    /\ Pick(T) \in T /\ T \ {Pick(T)} \notin B
  BY <1>1, Smallest
<1> USE DEF B
<1>3. SumFunctionOnSet(g, T \ {Pick(T)}) \in Int /\ g[Pick(T)] \in Int
  BY <1>2
<1> QED
  BY <1>2, <1>3, SumOfSome

LEMMA SumIsNat ==
  ASSUME NEW g, NEW S, IsFiniteSet(S), \A x \in S : g[x] \in Nat
  PROVE  SumFunctionOnSet(g, S) \in Nat
<1> DEFINE B == {T \in SUBSET S : SumFunctionOnSet(g, T) \notin Nat}
<1> SUFFICES ASSUME B # {} PROVE FALSE
  OBVIOUS
<1>1. B \subseteq SUBSET S /\ {} \notin B
  BY SumOfNone
<1> HIDE DEF B
<1>2. PICK T \in B : /\ T \subseteq S /\ T # {} /\ IsFiniteSet(T)
                    /\ Pick(T) \in T /\ T \ {Pick(T)} \notin B
  BY <1>1, Smallest
<1> USE DEF B
<1>3. SumFunctionOnSet(g, T \ {Pick(T)}) \in Nat /\ g[Pick(T)] \in Nat
  BY <1>2
<1> QED
  BY <1>2, <1>3, SumOfSome

(* A sum depends on the values of the set only.                            *)
LEMMA SumSame ==
  ASSUME NEW g, NEW h, NEW S, IsFiniteSet(S), \A x \in S : g[x] = h[x]
  PROVE  SumFunctionOnSet(g, S) = SumFunctionOnSet(h, S)
<1> DEFINE B == {T \in SUBSET S : SumFunctionOnSet(g, T) # SumFunctionOnSet(h, T)}
<1> SUFFICES ASSUME B # {} PROVE FALSE
  OBVIOUS
<1>1. B \subseteq SUBSET S /\ {} \notin B
  BY SumOfNone
<1> HIDE DEF B
<1>2. PICK T \in B : /\ T \subseteq S /\ T # {} /\ IsFiniteSet(T)
                    /\ Pick(T) \in T /\ T \ {Pick(T)} \notin B
  BY <1>1, Smallest
<1> USE DEF B
<1>3. /\ SumFunctionOnSet(g, T \ {Pick(T)}) = SumFunctionOnSet(h, T \ {Pick(T)})
      /\ g[Pick(T)] = h[Pick(T)]
  BY <1>2
<1> QED
  BY <1>2, <1>3, SumOfSome

LEMMA SumOfZeros ==
  ASSUME NEW g, NEW S, IsFiniteSet(S), \A x \in S : g[x] = 0
  PROVE  SumFunctionOnSet(g, S) = 0
<1> DEFINE B == {T \in SUBSET S : SumFunctionOnSet(g, T) # 0}
<1> SUFFICES ASSUME B # {} PROVE FALSE
  OBVIOUS
<1>1. B \subseteq SUBSET S /\ {} \notin B
  BY SumOfNone
<1> HIDE DEF B
<1>2. PICK T \in B : /\ T \subseteq S /\ T # {} /\ IsFiniteSet(T)
                    /\ Pick(T) \in T /\ T \ {Pick(T)} \notin B
  BY <1>1, Smallest
<1> USE DEF B
<1>3. SumFunctionOnSet(g, T \ {Pick(T)}) = 0 /\ g[Pick(T)] = 0
  BY <1>2
<1> QED
  BY <1>2, <1>3, SumOfSome

(* Any element can be taken out of a sum.                                  *)
LEMMA SumWithout ==
  ASSUME NEW g, NEW S, IsFiniteSet(S), \A x \in S : g[x] \in Int, NEW x \in S
  PROVE  SumFunctionOnSet(g, S) = g[x] + SumFunctionOnSet(g, S \ {x})
<1> DEFINE Splits(T, y) == SumFunctionOnSet(g, T) = g[y] + SumFunctionOnSet(g, T \ {y})
           B == {T \in SUBSET S : \E y \in T : ~Splits(T, y)}
<1> SUFFICES ASSUME B # {} PROVE FALSE
  OBVIOUS
<1>0. B \subseteq SUBSET S
  OBVIOUS
<1> HIDE DEF B, Splits
<1>1. PICK T \in B : \A U \in SUBSET T : U # T => U \notin B
  BY <1>0, MinimalSet
<1>2. PICK y \in T : ~Splits(T, y)
  BY DEF B
<1>3. PICK p : p = Pick(T)
  OBVIOUS
<1>4. T \subseteq S /\ IsFiniteSet(T) /\ p \in T
  BY <1>0, <1>1, <1>2, <1>3, FS_Subset, PickIn
<1>5. Splits(T, p)
  BY <1>2, <1>3, <1>4, SumOfSome DEF Splits
<1>6. \A U \in SUBSET T : U # T => \A z \in U : Splits(U, z)
  BY <1>1, <1>4 DEF B
<1>7. p # y
  BY <1>2, <1>5
<1>8. Splits(T \ {p}, y) /\ Splits(T \ {y}, p)
  BY <1>2, <1>4, <1>6, <1>7
<1>9. (T \ {p}) \ {y} = (T \ {y}) \ {p}
  OBVIOUS
<1>10. g[p] \in Int /\ g[y] \in Int /\ SumFunctionOnSet(g, (T \ {y}) \ {p}) \in Int
  <2>1. /\ IsFiniteSet((T \ {y}) \ {p}) /\ (T \ {y}) \ {p} \subseteq S
    BY <1>4, FS_Subset
  <2> QED
    BY <1>2, <1>4, <2>1, SumIsInt
<1>11. ~(SumFunctionOnSet(g, T) = g[y] + SumFunctionOnSet(g, T \ {y}))
  BY <1>2 DEF Splits
<1>12. PICK c \in Int : c = SumFunctionOnSet(g, (T \ {y}) \ {p})
  BY <1>10
<1>13. /\ SumFunctionOnSet(g, T) = g[p] + SumFunctionOnSet(g, T \ {p})
       /\ SumFunctionOnSet(g, T \ {p}) = g[y] + c
       /\ SumFunctionOnSet(g, T \ {y}) = g[p] + c
  BY <1>5, <1>8, <1>9, <1>12 DEF Splits
<1>14. g[p] + (g[y] + c) = g[y] + (g[p] + c)
  BY <1>10
<1> QED
  BY <1>11, <1>13, <1>14

(* A new element adds its value.                                           *)
LEMMA SumWith ==
  ASSUME NEW g, NEW S, IsFiniteSet(S), NEW x, x \notin S, \A y \in S \cup {x} : g[y] \in Int
  PROVE  SumFunctionOnSet(g, S \cup {x}) = g[x] + SumFunctionOnSet(g, S)
<1>1. IsFiniteSet(S \cup {x}) /\ (S \cup {x}) \ {x} = S
  BY FS_AddElement
<1> QED
  BY <1>1, SumWithout

(* Of naturals, a part sums up to no more than the whole.                  *)
LEMMA SumGrows ==
  ASSUME NEW g, NEW S, IsFiniteSet(S), \A x \in S : g[x] \in Nat, NEW R, R \subseteq S
  PROVE  SumFunctionOnSet(g, R) <= SumFunctionOnSet(g, S)
<1> DEFINE B == {T \in SUBSET S : /\ R \subseteq T
                                  /\ ~(SumFunctionOnSet(g, R) <= SumFunctionOnSet(g, T))}
<1> SUFFICES ASSUME B # {} PROVE FALSE
  OBVIOUS
<1>0. B \subseteq SUBSET S
  OBVIOUS
<1> HIDE DEF B
<1>1. PICK T \in B : \A U \in SUBSET T : U # T => U \notin B
  BY <1>0, MinimalSet
<1>2. /\ T \subseteq S /\ R \subseteq T
      /\ ~(SumFunctionOnSet(g, R) <= SumFunctionOnSet(g, T))
  BY DEF B
<1>3. IsFiniteSet(T) /\ IsFiniteSet(R)
  BY <1>2, FS_Subset
<1>4. SumFunctionOnSet(g, R) \in Nat /\ SumFunctionOnSet(g, T) \in Nat
  BY <1>2, <1>3, SumIsNat
<1>5. PICK x \in T : x \notin R
  <2>1. R # T
    BY <1>2, <1>4
  <2> QED
    BY <1>2, <2>1
<1>6. SumFunctionOnSet(g, R) <= SumFunctionOnSet(g, T \ {x})
  BY <1>1, <1>2, <1>5 DEF B
<1>7. SumFunctionOnSet(g, T) = g[x] + SumFunctionOnSet(g, T \ {x})
  BY <1>2, <1>3, <1>5, SumWithout
<1>8. g[x] \in Nat /\ SumFunctionOnSet(g, T \ {x}) \in Nat
  BY <1>2, <1>3, <1>5, SumIsNat, FS_Subset
<1> QED
  BY <1>2, <1>4, <1>6, <1>7, <1>8

-----------------------------------------------------------------------------
(***************************************************************************)
(* Types                                                                   *)
(***************************************************************************)

(* What the position of a handler says about its local state.              *)
LEMMA CallShape ==
  ASSUME TypeOK, NEW w \in Worker
  PROVE  /\ call[w] \in Call
         /\ call[w].at \in {"insert", "reread"} => call[w] \in InsertCall
         /\ call[w].at \in {"totals", "days", "accrue"} => call[w] \in AccrueCall
         /\ call[w].at = "reply" => call[w] \in ReplyCall
         /\ call[w].at = "reverse" => call[w] \in ReverseCall
         /\ call[w].at = "redeem" => call[w] \in RedeemCall
BY DEF TypeOK, Call, Idle, InsertCall, AccrueCall, ReplyCall, ReverseCall, RedeemCall

(* Appending a row keeps the others where they are.                        *)
LEMMA AppendRow ==
  ASSUME NEW s \in Seq(Row), NEW e \in Row
  PROVE  /\ Append(s, e) \in Seq(Row)
         /\ DOMAIN Append(s, e) = DOMAIN s \cup {Len(s) + 1}
         /\ Len(Append(s, e)) = Len(s) + 1
         /\ \A i \in DOMAIN s : Append(s, e)[i] = s[i] /\ i <= Len(s)
         /\ Append(s, e)[Len(s) + 1] = e
OBVIOUS

(* An accrual row for a recorded purchase, and the amount it carries, are  *)
(* well typed.                                                             *)
LEMMA AmountIsInteger ==
  ASSUME NEW k \in Key, NEW active
  PROVE  CashbackAmount(Spend[k], active) \in Int
BY LedgerConstants, AmountBounds

(* CreateEntry keeps the ledger a sequence of rows.                        *)
LEMMA CreateEntryType ==
  ASSUME TypeOK, NEW kind \in Kind, NEW k \in Key,
         NEW bonus \in SUBSET Bonus, NEW spend, NEW amount \in Int,
         CreateEntry(kind, k, bonus, spend, amount)
  PROVE  ledger' \in Seq(Row)
<1> DEFINE e == Entry(kind, k, bonus, amount)
<1>1. e \in Row
  BY LedgerConstants DEF Entry, Row
<1> HIDE DEF e
<1> QED
  BY <1>1, AppendRow DEF CreateEntry, TypeOK, e

(* The handlers' local states are all well typed.                          *)
LEMMA AccruingType ==
  ASSUME NEW k \in Key, NEW replay \in BOOLEAN
  PROVE  Accruing(k, replay) \in Call
BY DEF Accruing, Call, AccrueCall, ReplyCall

(* A reversal row finds the accrual it takes back, an integer amount.      *)
LEMMA RowOfType ==
  ASSUME TypeOK, NEW kind, NEW ref, HasRow(kind, ref)
  PROVE  /\ RowOf(kind, ref) \in Row
         /\ RowOf(kind, ref).kind = kind
         /\ RowOf(kind, ref).ref = ref
         /\ \E i \in DOMAIN ledger : RowOf(kind, ref) = ledger[i]
<1> DEFINE Fits(i) == ledger[i].kind = kind /\ ledger[i].ref = ref
           chosen == CHOOSE i \in DOMAIN ledger : Fits(i)
<1>1. \E i \in DOMAIN ledger : Fits(i)
  BY DEF HasRow
<1>2. chosen \in DOMAIN ledger /\ Fits(chosen)
  BY <1>1, Zenon
<1>3. RowOf(kind, ref) = ledger[chosen]
  BY DEF RowOf
<1>4. ledger[chosen] \in Row
  BY <1>2 DEF TypeOK
<1> QED
  BY <1>2, <1>3, <1>4

(* A handler that moves on to a well typed state leaves the others alone.  *)
LEMMA CallUpdate ==
  ASSUME TypeOK, NEW w \in Worker, NEW c \in Call,
         call' = [call EXCEPT ![w] = c]
  PROVE  /\ call' \in [Worker -> Call]
         /\ call'[w] = c
         /\ \A v \in Worker \ {w} : call'[v] = call[v]
BY DEF TypeOK

(* A handler between finding an accrual and reversing it: the row it found *)
(* stays.                                                                  *)
ReversalsReady ==
  \A w \in Worker : call[w].at = "reverse" => HasRow("accrual", call[w].key)

(* What TypeOK says but for the range of the amounts.                      *)
ShapesOK ==
  /\ recorded \in Seq(Key)
  /\ ledger \in Seq(Row)
  /\ DOMAIN redeems \subseteq Request
  /\ redeems \in [DOMAIN redeems -> RedeemRow]
  /\ call \in [Worker -> Call]
  /\ answers \subseteq Key \X Answer

(* Every step keeps every table and every handler well typed.              *)
LEMMA ShapesStep ==
  ASSUME TypeOK, ReversalsReady, [Next]_vars
  PROVE  ShapesOK'
<1>1. ASSUME NEW w \in Worker, NEW k \in Key, Lookup(w, k)
      PROVE  ShapesOK'
  <2>1. [at |-> "insert", key |-> k] \in Call
    BY DEF Call, InsertCall
  <2>2. \E c \in Call : call' = [call EXCEPT ![w] = c]
    BY <1>1, <2>1, AccruingType DEF Lookup
  <2> QED
    BY <1>1, <2>2, CallUpdate DEF Lookup, TypeOK, ShapesOK
<1>2. ASSUME NEW w \in Worker, InsertTransaction(w)
      PROVE  ShapesOK'
  <2>1. call[w] \in InsertCall /\ call[w].key \in Key
    BY <1>2, CallShape DEF InsertTransaction, InsertCall
  <2>2. recorded' \in Seq(Key)
    <3>1. recorded' = Append(recorded, call[w].key) \/ recorded' = recorded
      BY <1>2 DEF InsertTransaction
    <3> QED
      BY <2>1, <3>1 DEF TypeOK, ShapesOK
  <2>3. [at |-> "reread", key |-> call[w].key] \in Call
    BY <2>1 DEF Call, InsertCall
  <2>4. \E c \in Call : call' = [call EXCEPT ![w] = c]
    BY <1>2, <2>1, <2>3, AccruingType DEF InsertTransaction
  <2>5. call' \in [Worker -> Call]
    BY <2>4, CallUpdate
  <2> QED
    BY <1>2, <2>2, <2>5 DEF InsertTransaction, TypeOK, ShapesOK
<1>3. ASSUME NEW w \in Worker, RereadWinner(w)
      PROVE  ShapesOK'
  BY <1>3, CallShape DEF RereadWinner, TypeOK, ShapesOK, Call, InsertCall, ReplyCall
<1>4. ASSUME NEW w \in Worker, ReadTotals(w)
      PROVE  ShapesOK'
  <2>1. call[w].key \in Key /\ call[w].replay \in BOOLEAN
    BY <1>4, CallShape DEF ReadTotals, AccrueCall
  <2>2. PICK active \in SUBSET Bonus :
          call' = [call EXCEPT ![w] = [at |-> "days", key |-> call[w].key,
                                       bonus |-> active, replay |-> call[w].replay]]
    BY <1>4 DEF ReadTotals, Bonus
  <2>3. [at |-> "days", key |-> call[w].key,
         bonus |-> active, replay |-> call[w].replay] \in Call
    BY <2>1 DEF Call, AccrueCall
  <2> QED
    BY <1>4, <2>2, <2>3, CallUpdate DEF ReadTotals, TypeOK, ShapesOK
<1>5. ASSUME NEW w \in Worker, ReadDays(w)
      PROVE  ShapesOK'
  <2>1. /\ call[w].key \in Key /\ call[w].replay \in BOOLEAN
        /\ call[w].bonus \in SUBSET Bonus
    BY <1>5, CallShape DEF ReadDays, AccrueCall
  <2>2. PICK bonus \in SUBSET Bonus :
          call' = [call EXCEPT ![w] = [at |-> "accrue", key |-> call[w].key,
                                       bonus |-> bonus, replay |-> call[w].replay]]
    BY <1>5, <2>1 DEF ReadDays, Bonus
  <2>3. [at |-> "accrue", key |-> call[w].key,
         bonus |-> bonus, replay |-> call[w].replay] \in Call
    BY <2>1 DEF Call, AccrueCall
  <2> QED
    BY <1>5, <2>2, <2>3, CallUpdate DEF ReadDays, TypeOK, ShapesOK
<1>6. ASSUME NEW w \in Worker, Accrue(w)
      PROVE  ShapesOK'
  <2>1. call[w].key \in Key /\ call[w].bonus \in SUBSET Bonus
          /\ call[w].replay \in BOOLEAN
    BY <1>6, CallShape DEF Accrue, AccrueCall
  <2>2. ledger' \in Seq(Row)
    BY <1>6, <2>1, CreateEntryType, AmountIsInteger DEF Accrue, Kind
  <2>3. call' \in [Worker -> Call]
    BY <1>6, <2>1 DEF Accrue, TypeOK, ShapesOK, Call, ReplyCall
  <2> QED
    BY <1>6, <2>2, <2>3 DEF Accrue, TypeOK, ShapesOK
<1>7. ASSUME NEW w \in Worker, Reply(w)
      PROVE  ShapesOK'
  BY <1>7, CallShape DEF Reply, TypeOK, ShapesOK, Call, ReplyCall, Answer
<1>8. ASSUME NEW w \in Worker, NEW p \in Player, ReadBalance(w, p)
      PROVE  ShapesOK'
  BY <1>8 DEF ReadBalance, TypeOK, ShapesOK, Call, RedeemCall
<1>9. ASSUME NEW w \in Worker, CreateRedeem(w)
      PROVE  ShapesOK'
  <2> DEFINE p == call[w].player
             b == call[w].balance
  <2>1. p \in Player /\ b \in Int
    <3>1. p \in Player /\ b \in MinRedeem .. MaxInteger
      BY <1>9, CallShape DEF CreateRedeem, RedeemCall
    <3> QED
      BY <3>1
  <2>2. call' \in [Worker -> Call]
    BY <1>9, CallUpdate DEF CreateRedeem, Call
  <2>3. CASE UNCHANGED <<redeems, ledger>>
    BY <1>9, <2>2, <2>3 DEF CreateRedeem, TypeOK, ShapesOK
  <2>4. ASSUME NEW r \in Request \ DOMAIN redeems, InsertRedeem(r, p, b, b)
        PROVE  ShapesOK'
    <3>1. [kind |-> "redeem", player |-> p, ref |-> r, bonus |-> {}, amount |-> -b] \in Row
      BY <2>1 DEF Row, Kind
    <3>2. ledger' \in Seq(Row)
      BY <2>4, <3>1, AppendRow DEF InsertRedeem, TypeOK, ShapesOK
    <3>3. [player |-> p, amount |-> b, status |-> "pending"] \in RedeemRow
      BY <2>1 DEF RedeemRow
    <3>4. DOMAIN redeems' = DOMAIN redeems \cup {r}
      BY <2>4 DEF InsertRedeem
    <3>5. redeems' \in [DOMAIN redeems' -> RedeemRow]
      BY <2>4, <3>3, <3>4 DEF InsertRedeem, TypeOK, ShapesOK
    <3> QED
      BY <1>9, <2>2, <3>2, <3>4, <3>5 DEF CreateRedeem, TypeOK, ShapesOK
  <2> HIDE DEF p, b
  <2> QED
    BY <1>9, <2>3, <2>4 DEF CreateRedeem, p, b
<1>10. ASSUME NEW r \in Request, NEW status \in {"completed", "rejected"},
              ResolveRedeem(r, status)
       PROVE  ShapesOK'
  <2> DEFINE e == [kind |-> "redeem_return", player |-> redeems[r].player,
                    ref |-> r, bonus |-> {}, amount |-> redeems[r].amount]
             row == [player |-> redeems[r].player, amount |-> redeems[r].amount,
                     status |-> status]
  <2>1. redeems[r] \in RedeemRow
    BY <1>10 DEF ResolveRedeem, TypeOK, ShapesOK
  <2>2. row \in RedeemRow
    BY <2>1 DEF RedeemRow
  <2>3. redeems' = [redeems EXCEPT ![r] = row]
    BY <1>10 DEF ResolveRedeem, SetStatus
  <2>4. redeems' \in [DOMAIN redeems -> RedeemRow] /\ DOMAIN redeems' = DOMAIN redeems
    BY <2>2, <2>3 DEF TypeOK, ShapesOK
  <2>5. e \in Row
    BY <2>1 DEF Row, Kind, RedeemRow
  <2>6. ledger' = Append(ledger, e) \/ ledger' = ledger
    BY <1>10 DEF ResolveRedeem
  <2>7. ledger' \in Seq(Row)
    BY <2>5, <2>6, AppendRow DEF TypeOK, ShapesOK
  <2> QED
    BY <1>10, <2>4, <2>7 DEF ResolveRedeem, TypeOK, ShapesOK
<1>11. ASSUME NEW w \in Worker, NEW k \in Key, FindAccrual(w, k)
       PROVE  ShapesOK'
  BY <1>11 DEF FindAccrual, TypeOK, ShapesOK, Call, ReverseCall
<1>12. ASSUME NEW w \in Worker, Reverse(w)
       PROVE  ShapesOK'
  <2>1. call[w].key \in Key
    BY <1>12, CallShape DEF Reverse, ReverseCall
  <2>2. RowOf("accrual", call[w].key).amount \in Int
    BY <1>12, RowOfType DEF Row, ReversalsReady, Reverse
  <2>3. ledger' \in Seq(Row)
    BY <1>12, <2>1, <2>2, CreateEntryType DEF Reverse, Kind
  <2> QED
    BY <1>12, <2>3 DEF Reverse, TypeOK, ShapesOK, Call
<1>13. ASSUME NEW w \in Worker, Fail(w)
       PROVE  ShapesOK'
  BY <1>13 DEF Fail, TypeOK, ShapesOK, Call
<1>14. CASE UNCHANGED vars
  BY <1>14 DEF vars, TypeOK, ShapesOK
<1>15. \A k \in Refundable : k \in Key
  BY LedgerConstants
<1> QED
  BY <1>1, <1>2, <1>3, <1>4, <1>5, <1>6, <1>7, <1>8, <1>9, <1>10, <1>11,
     <1>12, <1>13, <1>14, <1>15 DEF Next, Purchase

(* Every amount that a statement stores is one its column can hold.        *)
LEMMA AmountsStep ==
  ASSUME TypeOK, ReversalsReady, [Next]_vars
  PROVE  AmountsFit'
<1>1. ASSUME NEW e \in Row, e.amount \in Storable, ledger' = Append(ledger, e)
      PROVE  \A i \in DOMAIN ledger' : ledger'[i].amount \in Storable
  BY <1>1, AppendRow DEF TypeOK, AmountsFit
<1>2. ASSUME NEW w \in Worker, Accrue(w)
      PROVE  AmountsFit'
  <2> DEFINE amount == CashbackAmount(Spend[call[w].key], call[w].bonus)
             e == Entry("accrual", call[w].key, call[w].bonus, amount)
  <2>1. call[w].key \in Key /\ call[w].bonus \in SUBSET Bonus
    BY <1>2, CallShape DEF Accrue, AccrueCall
  <2>2. amount \in Int /\ e.amount = amount
    BY <2>1, AmountIsInteger DEF Entry
  <2>3. e \in Row
    BY <2>1, <2>2, LedgerConstants DEF Entry, Row, Kind
  <2>4. /\ amount \in Storable /\ UNCHANGED redeems
        /\ UNCHANGED ledger \/ ledger' = Append(ledger, e)
    BY <1>2 DEF Accrue, CreateEntry
  <2> HIDE DEF amount, e
  <2> QED
    BY <1>1, <2>2, <2>3, <2>4 DEF TypeOK, AmountsFit
<1>3. ASSUME NEW w \in Worker, Reverse(w)
      PROVE  AmountsFit'
  <2> DEFINE amount == -RowOf("accrual", call[w].key).amount
             e == Entry("reversal", call[w].key, {}, amount)
  <2>1. call[w].key \in Key
    BY <1>3, CallShape DEF Reverse, ReverseCall
  <2>2. RowOf("accrual", call[w].key).amount \in Int
    BY <1>3, RowOfType DEF Row, ReversalsReady, Reverse
  <2>3. amount \in Int /\ e.amount = amount
    BY <2>2 DEF Entry
  <2>4. e \in Row
    BY <2>1, <2>3, LedgerConstants DEF Entry, Row, Kind
  <2>5. /\ amount \in Storable /\ UNCHANGED redeems
        /\ UNCHANGED ledger \/ ledger' = Append(ledger, e)
    BY <1>3 DEF Reverse, CreateEntry
  <2> HIDE DEF amount, e
  <2> QED
    BY <1>1, <2>3, <2>4, <2>5 DEF TypeOK, AmountsFit
<1>4. ASSUME NEW w \in Worker, CreateRedeem(w)
      PROVE  AmountsFit'
  <2> DEFINE p == call[w].player
             b == call[w].balance
  <2>1. p \in Player /\ b \in MinRedeem .. MaxInteger
    BY <1>4, CallShape DEF CreateRedeem, RedeemCall
  <2>2. MinRedeem \in Nat
    BY DEF MinRedeem
  <2>3. b \in Int /\ b \in Storable /\ -b \in Storable
    BY <2>1, <2>2, LedgerConstants DEF Storable
  <2>4. ASSUME NEW r \in Request \ DOMAIN redeems, InsertRedeem(r, p, b, b)
        PROVE  AmountsFit'
    <3> DEFINE e == [kind |-> "redeem", player |-> p, ref |-> r,
                     bonus |-> {}, amount |-> -b]
    <3>1. e \in Row /\ e.amount \in Storable
      BY <2>1, <2>3 DEF Row, Kind
    <3>2. ledger' = Append(ledger, e)
      BY <2>4 DEF InsertRedeem
    <3>3. \A x \in DOMAIN redeems' : redeems'[x].amount \in Storable
      BY <2>3, <2>4 DEF InsertRedeem, TypeOK, AmountsFit
    <3> HIDE DEF e
    <3> QED
      BY <1>1, <3>1, <3>2, <3>3 DEF AmountsFit
  <2> HIDE DEF p, b
  <2>5. UNCHANGED <<redeems, ledger>> \/ \E r \in Request \ DOMAIN redeems : InsertRedeem(r, p, b, b)
    BY <1>4 DEF CreateRedeem, p, b
  <2> QED
    BY <2>4, <2>5 DEF TypeOK, AmountsFit
<1>5. ASSUME NEW r \in Request, NEW status \in {"completed", "rejected"},
             ResolveRedeem(r, status)
      PROVE  AmountsFit'
  <2> DEFINE e == [kind |-> "redeem_return", player |-> redeems[r].player,
                    ref |-> r, bonus |-> {}, amount |-> redeems[r].amount]
  <2>1. /\ redeems[r] \in RedeemRow /\ redeems[r].amount \in Storable
        /\ redeems = [x \in DOMAIN redeems |-> redeems[x]]
    BY <1>5 DEF ResolveRedeem, TypeOK, AmountsFit
  <2>2. e \in Row /\ e.amount \in Storable
    BY <2>1 DEF Row, Kind, RedeemRow
  <2>3. UNCHANGED ledger \/ ledger' = Append(ledger, e)
    BY <1>5 DEF ResolveRedeem
  <2>4. \A x \in DOMAIN redeems' : redeems'[x].amount \in Storable
    BY <1>5, <2>1 DEF ResolveRedeem, SetStatus, TypeOK, AmountsFit
  <2> HIDE DEF e
  <2> QED
    BY <1>1, <2>2, <2>3, <2>4 DEF TypeOK, AmountsFit
<1>6. CASE UNCHANGED <<ledger, redeems>>
  BY <1>6 DEF TypeOK, AmountsFit
<1>7. ASSUME NEW w \in Worker,
             \/ \E k \in Key : Lookup(w, k)
             \/ \E k \in Refundable : FindAccrual(w, k)
             \/ \E p \in Player : ReadBalance(w, p)
             \/ InsertTransaction(w) \/ RereadWinner(w) \/ ReadTotals(w)
             \/ ReadDays(w) \/ Reply(w) \/ Fail(w)
      PROVE  UNCHANGED <<ledger, redeems>>
  BY <1>7 DEF Lookup, FindAccrual, ReadBalance, InsertTransaction, RereadWinner,
              ReadTotals, ReadDays, Reply, Fail
<1> QED
  BY <1>2, <1>3, <1>4, <1>5, <1>6, <1>7 DEF Next, Purchase, vars

(* Every step keeps tables, columns and handlers well typed.               *)
LEMMA TypeStep ==
  ASSUME TypeOK, ReversalsReady, [Next]_vars
  PROVE  TypeOK'
BY ShapesStep, AmountsStep DEF TypeOK, ShapesOK

-----------------------------------------------------------------------------
(***************************************************************************)
(* The inductive invariant                                                 *)
(***************************************************************************)

(* A handler that rates or credits a purchase found it on record, and read *)
(* "first" only when nothing was recorded before it.                       *)
RatingReady(w) ==
  /\ call[w].at \in {"totals", "days", "accrue"} =>
       Recorded(call[w].key) /\ Spend[call[w].key] > 0
  /\ call[w].at \in {"days", "accrue"} /\ "first" \in call[w].bonus =>
       Before(call[w].key) = {}

(* A handler about to answer 201 has credited what there was to credit.    *)
ReplyReady(w) ==
  call[w].at = "reply" /\ ~call[w].replay /\ Spend[call[w].key] > 0 =>
    HasRow("accrual", call[w].key)

ReversalReady(w) == call[w].at = "reverse" => HasRow("accrual", call[w].key)

HandlersReady ==
  \A w \in Worker : RatingReady(w) /\ ReplyReady(w) /\ ReversalReady(w)

(* A purchase rated as the first has none recorded before it.              *)
FirstRated ==
  \A i \in AccrualRows : "first" \in ledger[i].bonus => Before(ledger[i].ref) = {}

LedgerInv ==
  /\ TypeOK
  /\ HandlersReady
  /\ UniqueRows
  /\ RowsExplained
  /\ RequestsBacked
  /\ OnePendingPerPlayer
  /\ FirstRated
  /\ CreatedMeansAccrued

-----------------------------------------------------------------------------
(***************************************************************************)
(* What a step may do to the tables: nothing, or one of five effects.      *)
(***************************************************************************)

AccrualRow(k, bonus) ==
  [kind |-> "accrual", player |-> Owner[k], ref |-> k, bonus |-> bonus,
   amount |-> CashbackAmount(Spend[k], bonus)]

ReversalRow(k) ==
  [kind |-> "reversal", player |-> Owner[k], ref |-> k, bonus |-> {},
   amount |-> -RowOf("accrual", k).amount]

ReturnRow(r) ==
  [kind |-> "redeem_return", player |-> redeems[r].player, ref |-> r,
   bonus |-> {}, amount |-> redeems[r].amount]

Stored(k) ==
  /\ ~Recorded(k)
  /\ recorded' = Append(recorded, k)
  /\ UNCHANGED <<ledger, redeems>>

Credited(k, bonus) ==
  /\ Recorded(k) /\ Spend[k] > 0
  /\ "first" \in bonus => Before(k) = {}
  /\ ~HasRow("accrual", k)
  /\ \E w \in Worker : call[w].at = "accrue" /\ call[w].key = k /\ call[w].bonus = bonus
  /\ ledger' = Append(ledger, AccrualRow(k, bonus))
  /\ UNCHANGED <<recorded, redeems>>

TakenBack(k) ==
  /\ HasRow("accrual", k) /\ ~HasRow("reversal", k)
  /\ ledger' = Append(ledger, ReversalRow(k))
  /\ UNCHANGED <<recorded, redeems>>

Asked(r, p, amount) ==
  /\ r \notin DOMAIN redeems
  /\ ~HasPending(p)
  /\ \E w \in Worker : call[w].at = "redeem" /\ call[w].player = p /\ call[w].balance = amount
  /\ InsertRedeem(r, p, amount, amount)
  /\ UNCHANGED recorded

Settled(r, status) ==
  /\ r \in DOMAIN redeems
  /\ redeems[r].status = "pending"
  /\ SetStatus(r, status)
  /\ ledger' = IF status = "rejected" THEN Append(ledger, ReturnRow(r)) ELSE ledger
  /\ UNCHANGED recorded

Effect ==
  \/ UNCHANGED <<recorded, ledger, redeems>>
  \/ \E k \in Key : Stored(k)
  \/ \E k \in Key, bonus \in SUBSET Bonus : Credited(k, bonus)
  \/ \E k \in Key : TakenBack(k)
  \/ \E r \in Request, p \in Player, amount \in Int : Asked(r, p, amount)
  \/ \E r \in Request, status \in {"completed", "rejected"} : Settled(r, status)

(* Whatever handler moves, the tables see one of these effects.            *)
LEMMA StepEffect ==
  ASSUME LedgerInv, [Next]_vars
  PROVE  Effect
<1>1. ASSUME NEW w \in Worker, InsertTransaction(w)
      PROVE  Effect
  <2>1. call[w].key \in Key
    BY <1>1, CallShape DEF InsertTransaction, InsertCall, LedgerInv
  <2>2. Stored(call[w].key) \/ UNCHANGED <<recorded, ledger, redeems>>
    BY <1>1 DEF InsertTransaction, Stored
  <2> QED
    BY <2>1, <2>2 DEF Effect
<1>2. ASSUME NEW w \in Worker, Accrue(w)
      PROVE  Effect
  <2>1. call[w].key \in Key /\ call[w].bonus \in SUBSET Bonus
    BY <1>2, CallShape DEF Accrue, AccrueCall, LedgerInv
  <2>2. RatingReady(w)
    BY DEF LedgerInv, HandlersReady
  <2>3. Credited(call[w].key, call[w].bonus) \/ UNCHANGED <<recorded, ledger, redeems>>
    BY <1>2, <2>2 DEF Accrue, CreateEntry, Entry, Credited, AccrualRow, RatingReady
  <2> QED
    BY <2>1, <2>3 DEF Effect
<1>3. ASSUME NEW w \in Worker, Reverse(w)
      PROVE  Effect
  <2>1. call[w].key \in Key
    BY <1>3, CallShape DEF Reverse, ReverseCall, LedgerInv
  <2>2. ReversalReady(w)
    BY DEF LedgerInv, HandlersReady
  <2>3. TakenBack(call[w].key) \/ UNCHANGED <<recorded, ledger, redeems>>
    BY <1>3, <2>2 DEF Reverse, CreateEntry, Entry, TakenBack, ReversalRow, ReversalReady
  <2> QED
    BY <2>1, <2>3 DEF Effect
<1>4. ASSUME NEW w \in Worker, CreateRedeem(w)
      PROVE  Effect
  <2> DEFINE p == call[w].player
             b == call[w].balance
  <2>1. p \in Player /\ b \in Int
    <3>1. p \in Player /\ b \in MinRedeem .. MaxInteger
      BY <1>4, CallShape DEF CreateRedeem, RedeemCall, LedgerInv
    <3> QED
      BY <3>1
  <2>2. \/ UNCHANGED <<recorded, ledger, redeems>>
        \/ \E r \in Request : Asked(r, p, b)
    BY <1>4 DEF CreateRedeem, Asked
  <2> QED
    BY <2>1, <2>2 DEF Effect
<1>5. ASSUME NEW r \in Request, NEW status \in {"completed", "rejected"},
             ResolveRedeem(r, status)
      PROVE  Effect
  <2>1. Settled(r, status)
    BY <1>5 DEF ResolveRedeem, Settled, ReturnRow
  <2> QED
    BY <2>1 DEF Effect
<1>6. ASSUME NEW w \in Worker,
             \/ \E k \in Key : Lookup(w, k)
             \/ \E k \in Refundable : FindAccrual(w, k)
             \/ \E p \in Player : ReadBalance(w, p)
             \/ RereadWinner(w) \/ ReadTotals(w) \/ ReadDays(w) \/ Reply(w)
             \/ Fail(w)
      PROVE  Effect
  BY <1>6 DEF Lookup, FindAccrual, ReadBalance, RereadWinner, ReadTotals,
              ReadDays, Reply, Fail, Effect
<1>7. CASE UNCHANGED vars
  BY <1>7 DEF vars, Effect
<1> QED
  BY <1>1, <1>2, <1>3, <1>4, <1>5, <1>6, <1>7 DEF Next, Purchase

-----------------------------------------------------------------------------
(***************************************************************************)
(* What stays true of the tables                                           *)
(***************************************************************************)

(* The rows of the ledger after an insert.                                 *)
LEMMA RowsAfterAppend ==
  ASSUME TypeOK, NEW e \in Row, ledger' = Append(ledger, e)
  PROVE  /\ DOMAIN ledger' = DOMAIN ledger \cup {Len(ledger) + 1}
         /\ Len(ledger') = Len(ledger) + 1
         /\ \A i \in DOMAIN ledger : ledger'[i] = ledger[i] /\ i <= Len(ledger)
         /\ ledger'[Len(ledger) + 1] = e
         /\ \A kind, ref : HasRow(kind, ref)'
              <=> HasRow(kind, ref) \/ (e.kind = kind /\ e.ref = ref)
<1>1. /\ DOMAIN ledger' = DOMAIN ledger \cup {Len(ledger) + 1}
      /\ Len(ledger') = Len(ledger) + 1
      /\ \A i \in DOMAIN ledger : ledger'[i] = ledger[i] /\ i <= Len(ledger)
      /\ ledger'[Len(ledger) + 1] = e
  BY AppendRow DEF TypeOK
<1>2. ASSUME NEW kind, NEW ref
      PROVE  HasRow(kind, ref)'
               <=> HasRow(kind, ref) \/ (e.kind = kind /\ e.ref = ref)
  BY <1>1 DEF HasRow
<1> QED
  BY <1>1, <1>2

(* The row each effect inserts is well typed.                              *)
LEMMA EffectRows ==
  ASSUME TypeOK
  PROVE  /\ \A k \in Key, bonus \in SUBSET Bonus : AccrualRow(k, bonus) \in Row
         /\ \A k \in Key : HasRow("accrual", k) => ReversalRow(k) \in Row
         /\ \A r \in DOMAIN redeems : ReturnRow(r) \in Row
         /\ \A r \in Request, p \in Player, amount \in Int :
              [kind |-> "redeem", player |-> p, ref |-> r, bonus |-> {},
               amount |-> -amount] \in Row
<1>1. ASSUME NEW k \in Key, NEW bonus \in SUBSET Bonus
      PROVE  AccrualRow(k, bonus) \in Row
  BY AmountIsInteger, LedgerConstants DEF AccrualRow, Row, Kind
<1>2. ASSUME NEW k \in Key, HasRow("accrual", k)
      PROVE  ReversalRow(k) \in Row
  <2>1. RowOf("accrual", k).amount \in Int
    BY <1>2, RowOfType DEF Row
  <2> QED
    BY <2>1, LedgerConstants DEF ReversalRow, Row, Kind
<1>3. ASSUME NEW r \in DOMAIN redeems
      PROVE  ReturnRow(r) \in Row
  <2>1. redeems[r] \in RedeemRow /\ r \in Request
    BY DEF TypeOK
  <2> QED
    BY <2>1 DEF ReturnRow, Row, Kind, RedeemRow
<1>4. ASSUME NEW r \in Request, NEW p \in Player, NEW amount \in Int
      PROVE  [kind |-> "redeem", player |-> p, ref |-> r, bonus |-> {},
              amount |-> -amount] \in Row
  BY DEF Row, Kind
<1> QED
  BY <1>1, <1>2, <1>3, <1>4

(* Transactions and ledger rows are never removed, and what was recorded   *)
(* before a purchase never changes once it is on record.                   *)
LEMMA Monotone ==
  ASSUME TypeOK, Effect
  PROVE  /\ \A k \in Key : Recorded(k) => Recorded(k)' /\ Before(k)' = Before(k)
         /\ \A kind, ref : HasRow(kind, ref) => HasRow(kind, ref)'
<1>1. ASSUME UNCHANGED recorded, NEW k \in Key
      PROVE  Recorded(k)' = Recorded(k) /\ Before(k)' = Before(k)
  BY <1>1 DEF Recorded, Before, History
<1>2. ASSUME NEW j \in Key, Stored(j), NEW k \in Key, Recorded(k)
      PROVE  Recorded(k)' /\ Before(k)' = Before(k)
  <2>1. /\ DOMAIN recorded' = DOMAIN recorded \cup {Len(recorded) + 1}
        /\ \A i \in DOMAIN recorded : recorded'[i] = recorded[i] /\ i \in 1 .. Len(recorded)
        /\ recorded'[Len(recorded) + 1] = j
        /\ Len(recorded) \in Nat
    BY <1>2 DEF Stored, TypeOK
  <2>2. j # k
    BY <1>2 DEF Stored
  <2>3. \A x \in Key :
          (\E m, n \in DOMAIN recorded' : m < n /\ recorded'[m] = x /\ recorded'[n] = k)
          <=> (\E m, n \in DOMAIN recorded : m < n /\ recorded[m] = x /\ recorded[n] = k)
    BY <2>1, <2>2
  <2>4. \A x \in Key :
          (\E m, n \in DOMAIN recorded : m < n /\ recorded[m] = x /\ recorded[n] = k)
          => Recorded(x) /\ Recorded(x)'
    BY <2>1 DEF Recorded
  <2>5. Recorded(k)'
    BY <1>2, <2>1 DEF Recorded
  <2>6. Before(k)' = Before(k)
    BY <2>3, <2>4 DEF Before, History
  <2> QED
    BY <2>5, <2>6
<1>3. \A k \in Key : Recorded(k) => Recorded(k)' /\ Before(k)' = Before(k)
  BY <1>1, <1>2 DEF Effect, Credited, TakenBack, Asked, Settled
<1>4. ASSUME NEW kind, NEW ref, HasRow(kind, ref)
      PROVE  HasRow(kind, ref)'
  <2>1. CASE UNCHANGED ledger
    BY <1>4, <2>1 DEF HasRow
  <2>2. ASSUME NEW e \in Row, ledger' = Append(ledger, e)
        PROVE  HasRow(kind, ref)'
    BY <1>4, <2>2, RowsAfterAppend
  <2>3. UNCHANGED ledger \/ \E e \in Row : ledger' = Append(ledger, e)
    BY EffectRows DEF Effect, Stored, Credited, TakenBack, Asked, InsertRedeem, Settled
  <2> QED
    BY <2>1, <2>2, <2>3
<1> QED
  BY <1>3, <1>4

(* No effect inserts a second row of a kind for the same reference.        *)
LEMMA UniqueRowsStep ==
  ASSUME TypeOK, UniqueRows, RowsExplained, RequestsBacked, Effect
  PROVE  UniqueRows'
<1>1. CASE UNCHANGED ledger
  BY <1>1 DEF UniqueRows
<1>2. ASSUME NEW e \in Row, ledger' = Append(ledger, e), ~HasRow(e.kind, e.ref)
      PROVE  UniqueRows'
  BY <1>2, RowsAfterAppend DEF UniqueRows, HasRow
<1>3. ASSUME NEW k \in Key, NEW bonus \in SUBSET Bonus, Credited(k, bonus)
      PROVE  UniqueRows'
  BY <1>2, <1>3, EffectRows DEF Credited, AccrualRow
<1>4. ASSUME NEW k \in Key, TakenBack(k)
      PROVE  UniqueRows'
  BY <1>2, <1>4, EffectRows DEF TakenBack, ReversalRow
<1>5. ASSUME NEW r \in Request, NEW p \in Player, NEW amount \in Int,
             Asked(r, p, amount)
      PROVE  UniqueRows'
  <2>1. ~HasRow("redeem", r)
    BY <1>5 DEF Asked, HasRow, RowsExplained, RequestExplained
  <2> QED
    BY <1>2, <1>5, <2>1, EffectRows DEF Asked, InsertRedeem
<1>6. ASSUME NEW r \in Request, NEW status \in {"completed", "rejected"},
             Settled(r, status)
      PROVE  UniqueRows'
  <2>1. ~HasRow("redeem_return", r)
    BY <1>6 DEF Settled, RequestsBacked
  <2> QED
    BY <1>1, <1>2, <1>6, <2>1, EffectRows DEF Settled, ReturnRow
<1> QED
  BY <1>1, <1>3, <1>4, <1>5, <1>6 DEF Effect, Stored

(* The redeem requests after an effect: none is lost, and none changes its *)
(* player or amount.                                                       *)
LEMMA RequestsKept ==
  ASSUME TypeOK, Effect
  PROVE  \A r \in DOMAIN redeems :
           /\ r \in DOMAIN redeems'
           /\ redeems'[r].player = redeems[r].player
           /\ redeems'[r].amount = redeems[r].amount
           /\ redeems[r].status # "pending" => redeems'[r] = redeems[r]
<1>1. CASE UNCHANGED redeems
  BY <1>1
<1>2. ASSUME NEW q \in Request, NEW p \in Player, NEW amount \in Int,
             Asked(q, p, amount), NEW r \in DOMAIN redeems
      PROVE  r \in DOMAIN redeems' /\ redeems'[r] = redeems[r]
  BY <1>2 DEF Asked, InsertRedeem
<1>3. ASSUME NEW q \in Request, NEW status \in {"completed", "rejected"},
             Settled(q, status), NEW r \in DOMAIN redeems
      PROVE  /\ r \in DOMAIN redeems'
             /\ redeems'[r].player = redeems[r].player
             /\ redeems'[r].amount = redeems[r].amount
             /\ redeems[r].status # "pending" => redeems'[r] = redeems[r]
  BY <1>3 DEF Settled, SetStatus, TypeOK
<1> QED
  BY <1>1, <1>2, <1>3 DEF Effect, Stored, Credited, TakenBack

(* The cause of row i, given that the row is e.                            *)
Cause(e, i) ==
  /\ e.kind = "accrual" => AccrualExplained(e)
  /\ e.kind = "reversal" => ReversalExplained(i)
  /\ e.kind \in {"redeem", "redeem_return"} => RequestExplained(e)

(* A row that was explained stays explained: its purchase stays on record, *)
(* the accrual it takes back stays before it, its request keeps its amount.*)
LEMMA OldRowsExplained ==
  ASSUME TypeOK, RowsExplained, Effect, NEW i \in DOMAIN ledger, NEW e,
         ledger[i] = e, ledger'[i] = e,
         \A j \in 1 .. (i - 1) : ledger'[j] = ledger[j]
  PROVE  Cause(e, i)'
<1>1. Cause(e, i)
  BY DEF RowsExplained, Cause
<1>2. ASSUME e.kind = "accrual"
      PROVE  AccrualExplained(e)'
  BY <1>1, <1>2, Monotone DEF Cause, AccrualExplained
<1>3. ASSUME e.kind = "reversal"
      PROVE  ReversalExplained(i)'
  BY <1>1, <1>3 DEF Cause, ReversalExplained
<1>4. ASSUME e.kind \in {"redeem", "redeem_return"}
      PROVE  RequestExplained(e)'
  BY <1>1, <1>4, RequestsKept DEF Cause, RequestExplained
<1> QED
  BY <1>2, <1>3, <1>4 DEF Cause

(* Every effect inserts a row with the cause its kind names.               *)
LEMMA RowsExplainedStep ==
  ASSUME TypeOK, RowsExplained, Effect
  PROVE  RowsExplained'
<1>1. CASE UNCHANGED ledger
  <2>1. ASSUME NEW i \in DOMAIN ledger
        PROVE  \E e : e = ledger[i] /\ Cause(e, i)'
    <3>1. PICK e : e = ledger[i]
      OBVIOUS
    <3> QED
      BY <1>1, <3>1, OldRowsExplained
  <2> QED
    BY <1>1, <2>1 DEF RowsExplained, Cause
<1>2. ASSUME NEW n, n = Len(ledger) + 1,
             NEW e \in Row, ledger' = Append(ledger, e), Cause(e, n)'
      PROVE  RowsExplained'
  <2>1. /\ DOMAIN ledger' = DOMAIN ledger \cup {n}
        /\ \A i \in DOMAIN ledger : ledger'[i] = ledger[i]
        /\ ledger'[n] = e
    BY <1>2, RowsAfterAppend
  <2>2. \A i \in DOMAIN ledger : \A j \in 1 .. (i - 1) : j \in DOMAIN ledger
    BY DEF TypeOK
  <2>3. ASSUME NEW i \in DOMAIN ledger
        PROVE  \E x : x = ledger'[i] /\ Cause(x, i)'
    <3>1. PICK x : x = ledger[i]
      OBVIOUS
    <3> QED
      BY <2>1, <2>2, <3>1, OldRowsExplained
  <2> QED
    BY <1>2, <2>1, <2>3 DEF RowsExplained, Cause
<1>3. ASSUME NEW k \in Key, NEW bonus \in SUBSET Bonus, Credited(k, bonus)
      PROVE  RowsExplained'
  <2>1. AccrualExplained(AccrualRow(k, bonus))'
    BY <1>3 DEF Credited, AccrualRow, AccrualExplained, Recorded
  <2>2. \A n : Cause(AccrualRow(k, bonus), n)'
    BY <2>1 DEF Cause, AccrualRow
  <2> QED
    BY <1>2, <1>3, <2>2, EffectRows DEF Credited
<1>4. ASSUME NEW k \in Key, TakenBack(k)
      PROVE  RowsExplained'
  <2>1. PICK e \in Row, n \in {Len(ledger) + 1} : e = ReversalRow(k) /\ n = Len(ledger) + 1
    BY <1>4, EffectRows DEF TakenBack
  <2>2. PICK a \in Row : a = RowOf("accrual", k)
    BY <1>4, RowOfType DEF TakenBack
  <2>3. PICK j \in DOMAIN ledger : a = ledger[j] /\ a.kind = "accrual" /\ a.ref = k
    BY <1>4, <2>2, RowOfType DEF TakenBack
  <2>4. AccrualExplained(a)
    BY <2>3 DEF RowsExplained
  <2>5. a.player = Owner[k] /\ a.amount \in Int
    BY <2>3, <2>4 DEF AccrualExplained, Row
  <2>6. ledger' = Append(ledger, e)
    BY <1>4, <2>1 DEF TakenBack
  <2>7. /\ ledger'[j] = a /\ j \in 1 .. (n - 1)
        /\ ledger'[n] = e
    BY <2>1, <2>3, <2>6, RowsAfterAppend DEF TypeOK
  <2>8. /\ e.kind = "reversal" /\ e.ref = k /\ e.player = Owner[k]
        /\ e.amount = -a.amount
    BY <2>1, <2>2 DEF ReversalRow
  <2>9. ReversalExplained(n)'
    BY <2>3, <2>5, <2>7, <2>8 DEF ReversalExplained
  <2>10. Cause(e, n)'
    BY <2>8, <2>9 DEF Cause
  <2> QED
    BY <1>2, <2>1, <2>6, <2>10
<1>5. ASSUME NEW r \in Request, NEW p \in Player, NEW amount \in Int,
             Asked(r, p, amount)
      PROVE  RowsExplained'
  <2> DEFINE e == [kind |-> "redeem", player |-> p, ref |-> r, bonus |-> {},
                   amount |-> -amount]
  <2>1. RequestExplained(e)'
    BY <1>5 DEF Asked, InsertRedeem, RequestExplained
  <2>2. \A n : Cause(e, n)'
    BY <2>1 DEF Cause
  <2>3. e \in Row /\ ledger' = Append(ledger, e)
    BY <1>5, EffectRows DEF Asked, InsertRedeem
  <2> HIDE DEF e
  <2> QED
    BY <1>2, <2>2, <2>3
<1>6. ASSUME NEW r \in Request, NEW status \in {"completed", "rejected"},
             Settled(r, status)
      PROVE  RowsExplained'
  <2>1. PICK e \in Row : e = ReturnRow(r)
    BY <1>6, EffectRows DEF Settled
  <2>2. e.kind = "redeem_return" /\ RequestExplained(e)'
    BY <1>6, <2>1, RequestsKept DEF Settled, ReturnRow, RequestExplained
  <2>3. \A n : Cause(e, n)'
    BY <2>2 DEF Cause
  <2>4. ledger' = Append(ledger, e) \/ UNCHANGED ledger
    BY <1>6, <2>1 DEF Settled
  <2> QED
    BY <1>1, <1>2, <2>3, <2>4
<1> QED
  BY <1>1, <1>3, <1>4, <1>5, <1>6 DEF Effect, Stored

(* A new request comes with its deduction, a rejection with its return.    *)
LEMMA RequestsBackedStep ==
  ASSUME TypeOK, RowsExplained, RequestsBacked, Effect
  PROVE  RequestsBacked'
<1>1. CASE UNCHANGED <<ledger, redeems>>
  BY <1>1 DEF RequestsBacked, HasRow
<1>2. ASSUME NEW e \in Row, ledger' = Append(ledger, e), UNCHANGED redeems,
             e.kind \in {"accrual", "reversal"}
      PROVE  RequestsBacked'
  BY <1>2, RowsAfterAppend DEF RequestsBacked
<1>3. ASSUME NEW k \in Key, NEW bonus \in SUBSET Bonus, Credited(k, bonus)
      PROVE  RequestsBacked'
  BY <1>2, <1>3, EffectRows DEF Credited, AccrualRow
<1>4. ASSUME NEW k \in Key, TakenBack(k)
      PROVE  RequestsBacked'
  BY <1>2, <1>4, EffectRows DEF TakenBack, ReversalRow
<1>5. ASSUME NEW r \in Request, NEW p \in Player, NEW amount \in Int,
             Asked(r, p, amount)
      PROVE  RequestsBacked'
  <2> DEFINE e == [kind |-> "redeem", player |-> p, ref |-> r, bonus |-> {},
                   amount |-> -amount]
  <2>1. \A kind, ref : HasRow(kind, ref)'
          <=> HasRow(kind, ref) \/ (e.kind = kind /\ e.ref = ref)
    BY <1>5, EffectRows, RowsAfterAppend DEF Asked, InsertRedeem
  <2>2. ~HasRow("redeem_return", r)
    BY <1>5 DEF Asked, HasRow, RowsExplained, RequestExplained
  <2>3. /\ DOMAIN redeems' = DOMAIN redeems \cup {r}
        /\ redeems'[r].status = "pending"
        /\ \A q \in DOMAIN redeems : q # r /\ redeems'[q] = redeems[q]
    BY <1>5 DEF Asked, InsertRedeem
  <2> QED
    BY <2>1, <2>2, <2>3 DEF RequestsBacked
<1>6. ASSUME NEW r \in Request, NEW status \in {"completed", "rejected"},
             Settled(r, status)
      PROVE  RequestsBacked'
  <2>1. /\ DOMAIN redeems' = DOMAIN redeems
        /\ redeems'[r].status = status
        /\ \A q \in DOMAIN redeems \ {r} : redeems'[q] = redeems[q]
    BY <1>6 DEF Settled, SetStatus, TypeOK
  <2>2. CASE status = "completed"
    <3>1. \A kind, ref : HasRow(kind, ref)' = HasRow(kind, ref)
      BY <1>6, <2>2 DEF Settled, HasRow
    <3> QED
      BY <1>6, <2>1, <2>2, <3>1 DEF RequestsBacked, Settled
  <2>3. CASE status = "rejected"
    <3>1. \A kind, ref : HasRow(kind, ref)'
            <=> HasRow(kind, ref) \/ (kind = "redeem_return" /\ ref = r)
      BY <1>6, <2>3, EffectRows, RowsAfterAppend DEF Settled, ReturnRow
    <3> QED
      BY <1>6, <2>1, <2>3, <3>1 DEF RequestsBacked, Settled
  <2> QED
    BY <2>2, <2>3
<1> QED
  BY <1>1, <1>3, <1>4, <1>5, <1>6 DEF Effect, Stored

(* A request is only inserted for a player who waits for none.             *)
LEMMA OnePendingStep ==
  ASSUME TypeOK, OnePendingPerPlayer, Effect
  PROVE  OnePendingPerPlayer'
<1>1. CASE UNCHANGED redeems
  BY <1>1 DEF OnePendingPerPlayer
<1>2. ASSUME NEW r \in Request, NEW p \in Player, NEW amount \in Int,
             Asked(r, p, amount)
      PROVE  OnePendingPerPlayer'
  BY <1>2 DEF Asked, InsertRedeem, HasPending, OnePendingPerPlayer
<1>3. ASSUME NEW r \in Request, NEW status \in {"completed", "rejected"},
             Settled(r, status)
      PROVE  OnePendingPerPlayer'
  <2>1. /\ DOMAIN redeems' = DOMAIN redeems
        /\ redeems'[r].status = status
        /\ \A q \in DOMAIN redeems \ {r} : redeems'[q] = redeems[q]
    BY <1>3 DEF Settled, SetStatus, TypeOK
  <2> QED
    BY <2>1 DEF OnePendingPerPlayer
<1> QED
  BY <1>1, <1>2, <1>3 DEF Effect, Stored, Credited, TakenBack

(* An accrual is inserted with "first" only if nothing was recorded before *)
(* its purchase, and nothing ever will have been.                          *)
LEMMA FirstRatedStep ==
  ASSUME TypeOK, RowsExplained, FirstRated, Effect
  PROVE  FirstRated'
<1>1. \A i \in AccrualRows : ledger[i].ref \in Key /\ Recorded(ledger[i].ref)
  BY DEF AccrualRows, RowsExplained, AccrualExplained
<1>2. \A k \in Key : Recorded(k) => Before(k)' = Before(k)
  BY Monotone
<1>3. CASE UNCHANGED ledger
  <2>1. ASSUME NEW i \in AccrualRows, "first" \in ledger[i].bonus
        PROVE  \E k \in Key : k = ledger[i].ref /\ Before(k)' = {}
    BY <1>1, <1>2, <2>1 DEF FirstRated
  <2> QED
    BY <1>3, <2>1 DEF FirstRated, AccrualRows
<1>4. ASSUME NEW e \in Row, ledger' = Append(ledger, e),
             NEW k, k = e.ref,
             e.kind = "accrual" /\ "first" \in e.bonus => Before(k)' = {}
      PROVE  FirstRated'
  <2>1. /\ DOMAIN ledger' = DOMAIN ledger \cup {Len(ledger) + 1}
        /\ \A i \in DOMAIN ledger : ledger'[i] = ledger[i]
        /\ ledger'[Len(ledger) + 1] = e
    BY <1>4, RowsAfterAppend
  <2>2. ASSUME NEW i \in AccrualRows, "first" \in ledger[i].bonus
        PROVE  \E x \in Key : x = ledger[i].ref /\ Before(x)' = {}
    BY <1>1, <1>2, <2>2 DEF FirstRated
  <2> QED
    BY <1>4, <2>1, <2>2 DEF FirstRated, AccrualRows
<1>5. ASSUME NEW k \in Key, NEW bonus \in SUBSET Bonus, Credited(k, bonus)
      PROVE  FirstRated'
  <2>1. Before(k)' = Before(k)
    BY <1>5, Monotone DEF Credited
  <2> QED
    BY <1>4, <1>5, <2>1, EffectRows DEF Credited, AccrualRow
<1>6. ASSUME NEW e \in Row, ledger' = Append(ledger, e), e.kind # "accrual"
      PROVE  FirstRated'
  BY <1>4, <1>6
<1>7. ASSUME NEW k \in Key, TakenBack(k)
      PROVE  FirstRated'
  BY <1>6, <1>7, EffectRows DEF TakenBack, ReversalRow
<1>8. ASSUME NEW r \in Request, NEW p \in Player, NEW amount \in Int, Asked(r, p, amount)
      PROVE  FirstRated'
  BY <1>6, <1>8, EffectRows DEF Asked, InsertRedeem
<1>9. ASSUME NEW r \in Request, NEW status \in {"completed", "rejected"}, Settled(r, status)
      PROVE  FirstRated'
  <2>1. UNCHANGED ledger \/ (ledger' = Append(ledger, ReturnRow(r)) /\ ReturnRow(r) \in Row)
    BY <1>9, EffectRows DEF Settled
  <2> QED
    BY <1>3, <1>6, <2>1 DEF ReturnRow
<1> QED
  BY <1>3, <1>5, <1>7, <1>8, <1>9 DEF Effect, Stored

-----------------------------------------------------------------------------
(***************************************************************************)
(* What stays true of handlers and answers                                 *)
(***************************************************************************)

(* A handler that is not the one to move may rely on what it relied on.    *)
LEMMA OthersReady ==
  ASSUME TypeOK, HandlersReady, Effect, NEW v \in Worker, call'[v] = call[v]
  PROVE  RatingReady(v)' /\ ReplyReady(v)' /\ ReversalReady(v)'
<1> DEFINE c == call[v]
<1>1. RatingReady(v) /\ ReplyReady(v) /\ ReversalReady(v)
  BY DEF HandlersReady
<1>2. c.at \in {"totals", "days", "accrue"} => c.key \in Key
  BY CallShape DEF AccrueCall
<1>3. RatingReady(v)'
  BY <1>1, <1>2, Monotone DEF RatingReady
<1>4. ReplyReady(v)' /\ ReversalReady(v)'
  BY <1>1, Monotone DEF ReplyReady, ReversalReady
<1> QED
  BY <1>3, <1>4

(* Of a handler at rest, or before its key is known to be on record,       *)
(* nothing is asked.                                                       *)
LEMMA RestingReady ==
  ASSUME NEW w \in Worker,
         call'[w].at \notin {"totals", "days", "accrue", "reply", "reverse"}
  PROVE  RatingReady(w)' /\ ReplyReady(w)' /\ ReversalReady(w)'
BY DEF RatingReady, ReplyReady, ReversalReady

(* The state in which a handler goes on with a purchase on record.         *)
LEMMA AccruingReady ==
  ASSUME NEW w \in Worker, NEW k \in Key, NEW replay \in BOOLEAN, Recorded(k)',
         call'[w] = Accruing(k, replay)
  PROVE  RatingReady(w)' /\ ReplyReady(w)' /\ ReversalReady(w)'
<1>1. CASE Spend[k] > 0
  BY <1>1 DEF Accruing, RatingReady, ReplyReady, ReversalReady
<1>2. CASE ~(Spend[k] > 0)
  BY <1>2 DEF Accruing, RatingReady, ReplyReady, ReversalReady
<1> QED
  BY <1>1, <1>2

(* Every handler that moves has read what its next statement relies on.    *)
LEMMA HandlersReadyStep ==
  ASSUME LedgerInv, [Next]_vars, Effect, TypeOK'
  PROVE  HandlersReady'
<1> DEFINE Ready(w) == RatingReady(w) /\ ReplyReady(w) /\ ReversalReady(w)
<1> USE DEF LedgerInv
<1>1. ASSUME NEW w \in Worker, NEW c, call' = [call EXCEPT ![w] = c], Ready(w)'
      PROVE  HandlersReady'
  <2>1. \A v \in Worker \ {w} : call'[v] = call[v]
    BY <1>1 DEF TypeOK
  <2>2. \A v \in Worker \ {w} : Ready(v)'
    BY <2>1, OthersReady
  <2> QED
    BY <1>1, <2>2 DEF HandlersReady
<1>2. ASSUME NEW w \in Worker, NEW c, call' = [call EXCEPT ![w] = c]
      PROVE  call'[w] = c
  BY <1>2 DEF TypeOK
<1>3. ASSUME NEW w \in Worker, NEW c, call' = [call EXCEPT ![w] = c],
             c.at \notin {"totals", "days", "accrue", "reply", "reverse"}
      PROVE  HandlersReady'
  BY <1>1, <1>2, <1>3, RestingReady
<1>4. ASSUME NEW w \in Worker, NEW k \in Key, Lookup(w, k)
      PROVE  HandlersReady'
  <2>1. CASE Recorded(k) /\ call' = [call EXCEPT ![w] = Accruing(k, TRUE)]
    <3>1. Recorded(k)' /\ call'[w] = Accruing(k, TRUE)
      BY <1>2, <2>1, Monotone
    <3> QED
      BY <1>1, <2>1, <3>1, AccruingReady
  <2>2. CASE call' = [call EXCEPT ![w] = [at |-> "insert", key |-> k]]
    BY <1>3, <2>2
  <2> QED
    BY <1>4, <2>1, <2>2 DEF Lookup
<1>5. ASSUME NEW w \in Worker, InsertTransaction(w)
      PROVE  HandlersReady'
  <2>1. PICK k \in Key : k = call[w].key
    BY <1>5, CallShape DEF InsertTransaction, InsertCall
  <2>2. CASE recorded' = Append(recorded, k)
               /\ call' = [call EXCEPT ![w] = Accruing(k, FALSE)]
    <3>1. Recorded(k)'
      BY <2>2 DEF Recorded, TypeOK
    <3>2. call'[w] = Accruing(k, FALSE)
      BY <1>2, <2>2
    <3> QED
      BY <1>1, <2>2, <3>1, <3>2, AccruingReady
  <2>3. CASE call' = [call EXCEPT ![w] = [at |-> "reread", key |-> k]]
    BY <1>3, <2>3
  <2> QED
    BY <1>5, <2>1, <2>2, <2>3 DEF InsertTransaction
<1>6. ASSUME NEW w \in Worker, RereadWinner(w)
      PROVE  HandlersReady'
  <2> DEFINE c == [at |-> "reply", key |-> call[w].key, replay |-> TRUE]
  <2>1. call' = [call EXCEPT ![w] = c] /\ call'[w] = c
    BY <1>2, <1>6 DEF RereadWinner
  <2>2. Ready(w)'
    BY <2>1 DEF RatingReady, ReplyReady, ReversalReady
  <2> QED
    BY <1>1, <2>1, <2>2
<1>7. ASSUME NEW w \in Worker, ReadTotals(w)
      PROVE  HandlersReady'
  <2>1. PICK k \in Key : k = call[w].key
    BY <1>7, CallShape DEF ReadTotals, AccrueCall
  <2>2. PICK bonus :
          /\ call' = [call EXCEPT ![w] = [at |-> "days", key |-> k, bonus |-> bonus,
                                          replay |-> call[w].replay]]
          /\ "first" \in bonus => History(k) = {}
    BY <1>7, <2>1 DEF ReadTotals
  <2>3. call'[w] = [at |-> "days", key |-> k, bonus |-> bonus,
                    replay |-> call[w].replay]
    BY <1>2, <2>2
  <2>4. Recorded(k) /\ Spend[k] > 0
    BY <1>7, <2>1 DEF ReadTotals, HandlersReady, RatingReady
  <2>5. Recorded(k)' /\ ("first" \in bonus => Before(k)' = {})
    BY <2>2, <2>4, Monotone DEF Before
  <2>6. Ready(w)'
    BY <2>3, <2>4, <2>5 DEF RatingReady, ReplyReady, ReversalReady
  <2> QED
    BY <1>1, <2>2, <2>6
<1>8. ASSUME NEW w \in Worker, ReadDays(w)
      PROVE  HandlersReady'
  <2>1. PICK k \in Key : k = call[w].key
    BY <1>8, CallShape DEF ReadDays, AccrueCall
  <2>2. PICK bonus :
          /\ call' = [call EXCEPT ![w] = [at |-> "accrue", key |-> k, bonus |-> bonus,
                                          replay |-> call[w].replay]]
          /\ "first" \in bonus => "first" \in call[w].bonus
    BY <1>8, <2>1 DEF ReadDays
  <2>3. call'[w] = [at |-> "accrue", key |-> k, bonus |-> bonus,
                    replay |-> call[w].replay]
    BY <1>2, <2>2
  <2>4. /\ Recorded(k) /\ Spend[k] > 0
        /\ "first" \in bonus => Before(k) = {}
    BY <1>8, <2>1, <2>2 DEF ReadDays, HandlersReady, RatingReady
  <2>5. Recorded(k)' /\ ("first" \in bonus => Before(k)' = {})
    BY <2>4, Monotone
  <2>6. Ready(w)'
    BY <2>3, <2>4, <2>5 DEF RatingReady, ReplyReady, ReversalReady
  <2> QED
    BY <1>1, <2>2, <2>6
<1>9. ASSUME NEW w \in Worker, Accrue(w)
      PROVE  HandlersReady'
  <2>1. PICK k \in Key : k = call[w].key
    BY <1>9, CallShape DEF Accrue, AccrueCall
  <2> DEFINE c == [at |-> "reply", key |-> k, replay |-> call[w].replay]
  <2>2. call' = [call EXCEPT ![w] = c] /\ call'[w] = c
    BY <1>2, <1>9, <2>1 DEF Accrue
  <2>3. call[w].bonus \in SUBSET Bonus
    BY <1>9, CallShape DEF Accrue, AccrueCall
  <2>4. HasRow("accrual", k)'
    <3>1. CASE HasRow("accrual", k)
      BY <3>1, Monotone
    <3>2. CASE ledger' = Append(ledger, AccrualRow(k, call[w].bonus))
      <4>1. PICK e \in Row : e = AccrualRow(k, call[w].bonus)
        BY <2>3, EffectRows
      <4>2. e.kind = "accrual" /\ e.ref = k
        BY <4>1 DEF AccrualRow
      <4> QED
        BY <3>2, <4>1, <4>2, RowsAfterAppend
    <3> QED
      BY <1>9, <2>1, <3>1, <3>2 DEF Accrue, CreateEntry, Entry, AccrualRow
  <2>5. Ready(w)'
    BY <2>2, <2>4 DEF RatingReady, ReplyReady, ReversalReady
  <2> QED
    BY <1>1, <2>2, <2>5
<1>10. ASSUME NEW w \in Worker, NEW k \in Key, FindAccrual(w, k)
       PROVE  HandlersReady'
  <2> DEFINE c == [at |-> "reverse", key |-> k]
  <2>1. call' = [call EXCEPT ![w] = c] /\ call'[w] = c
    BY <1>2, <1>10 DEF FindAccrual
  <2>2. HasRow("accrual", k)'
    BY <1>10, Monotone DEF FindAccrual
  <2>3. Ready(w)'
    BY <2>1, <2>2 DEF RatingReady, ReplyReady, ReversalReady
  <2> QED
    BY <1>1, <2>1, <2>3
<1>11. ASSUME NEW w \in Worker, NEW p \in Player, ReadBalance(w, p)
       PROVE  HandlersReady'
  BY <1>3, <1>11 DEF ReadBalance
<1>12. ASSUME NEW w \in Worker, Reply(w) \/ CreateRedeem(w) \/ Reverse(w) \/ Fail(w)
       PROVE  HandlersReady'
  <2>1. call' = [call EXCEPT ![w] = Idle]
    BY <1>12 DEF Reply, CreateRedeem, Reverse, Fail
  <2> QED
    BY <1>3, <2>1 DEF Idle
<1>13. CASE UNCHANGED call
  BY <1>13, OthersReady DEF HandlersReady
<1>14. \A k \in Refundable : k \in Key
  BY LedgerConstants
<1>15. UNCHANGED vars => UNCHANGED call
  BY DEF vars
<1>16. ASSUME NEW r \in Request, NEW status \in {"completed", "rejected"},
              ResolveRedeem(r, status)
       PROVE  UNCHANGED call
  BY <1>16 DEF ResolveRedeem
<1> QED
  BY <1>4, <1>5, <1>6, <1>7, <1>8, <1>9, <1>10, <1>11, <1>12, <1>13, <1>14,
     <1>15, <1>16 DEF Next, Purchase

(* A 201 is only sent by a handler whose purchase has been credited.       *)
LEMMA CreatedStep ==
  ASSUME LedgerInv, [Next]_vars, Effect
  PROVE  CreatedMeansAccrued'
<1>1. \A k \in Key : HasRow("accrual", k) => HasRow("accrual", k)'
  BY Monotone DEF LedgerInv
<1>2. CASE UNCHANGED answers
  BY <1>1, <1>2 DEF LedgerInv, CreatedMeansAccrued
<1>3. ASSUME NEW w \in Worker, Reply(w)
      PROVE  CreatedMeansAccrued'
  <2>1. ReplyReady(w)
    BY DEF LedgerInv, HandlersReady
  <2> QED
    BY <1>1, <1>3, <2>1 DEF LedgerInv, CreatedMeansAccrued, Reply, ReplyReady
<1>4. UNCHANGED answers \/ \E w \in Worker : Reply(w)
  BY DEF Next, Purchase, vars, Lookup, InsertTransaction, RereadWinner, ReadTotals,
         ReadDays, Accrue, ReadBalance, CreateRedeem, ResolveRedeem, FindAccrual,
         Reverse, Fail
<1> QED
  BY <1>2, <1>3, <1>4

-----------------------------------------------------------------------------
(***************************************************************************)
(* The theorems                                                            *)
(***************************************************************************)

(* The empty tables, with every handler at rest, satisfy the invariant.    *)
LEMMA InitInv == Init => LedgerInv
<1> SUFFICES ASSUME Init PROVE LedgerInv
  OBVIOUS
<1> USE DEF Init
<1>1. TypeOK
  <2>1. ledger \in Seq(Row) /\ recorded \in Seq(Key)
    OBVIOUS
  <2>2. DOMAIN redeems = {} /\ redeems \in [DOMAIN redeems -> RedeemRow]
    OBVIOUS
  <2>3. call \in [Worker -> Call]
    BY DEF Call
  <2>4. AmountsFit
    <3>1. DOMAIN ledger = {}
      OBVIOUS
    <3> QED
      BY <2>2, <3>1 DEF AmountsFit
  <2> QED
    BY <2>1, <2>2, <2>3, <2>4 DEF TypeOK
<1>2. DOMAIN ledger = {} /\ DOMAIN redeems = {} /\ AccrualRows = {}
  BY DEF AccrualRows
<1>3. HandlersReady
  BY DEF HandlersReady, RatingReady, ReplyReady, ReversalReady, Idle
<1> QED
  BY <1>1, <1>2, <1>3 DEF LedgerInv, UniqueRows, RowsExplained, RequestsBacked,
     OnePendingPerPlayer, FirstRated, CreatedMeansAccrued

(* And every step of a handler keeps it.                                   *)
LEMMA StepInv == LedgerInv /\ [Next]_vars => LedgerInv'
<1> SUFFICES ASSUME LedgerInv, [Next]_vars PROVE LedgerInv'
  OBVIOUS
<1>1. Effect
  BY StepEffect
<1>2. ReversalsReady
  BY DEF LedgerInv, HandlersReady, ReversalReady, ReversalsReady
<1>3. TypeOK'
  BY <1>2, TypeStep DEF LedgerInv
<1>4. HandlersReady'
  BY <1>1, <1>3, HandlersReadyStep
<1>5. UniqueRows' /\ RowsExplained' /\ RequestsBacked' /\ OnePendingPerPlayer'
  BY <1>1, UniqueRowsStep, RowsExplainedStep, RequestsBackedStep, OnePendingStep
     DEF LedgerInv
<1>6. FirstRated' /\ CreatedMeansAccrued'
  BY <1>1, FirstRatedStep, CreatedStep DEF LedgerInv
<1> QED
  BY <1>3, <1>4, <1>5, <1>6 DEF LedgerInv

(* The inductive invariant holds in every reachable state.                 *)
THEOREM LedgerInvariant == Spec => []LedgerInv
  BY InitInv, StepInv, PTL DEF Spec

(* Tables and handlers are well typed; in particular the balance a redeem  *)
(* request is created from always fits its integer column.                 *)
THEOREM TypeCorrect == Spec => []TypeOK
<1>1. LedgerInv => TypeOK
  BY DEF LedgerInv
<1> QED
  BY <1>1, LedgerInvariant, PTL

(* No retry, race or replay makes a second row of one cause.               *)
THEOREM RowsAreUnique == Spec => []UniqueRows
<1>1. LedgerInv => UniqueRows
  BY DEF LedgerInv
<1> QED
  BY <1>1, LedgerInvariant, PTL

(* Every row has its cause, every request its deduction and, when it was   *)
(* rejected, its return.                                                   *)
THEOREM RowsAndRequestsAgree == Spec => [](RowsExplained /\ RequestsBacked)
<1>1. LedgerInv => RowsExplained /\ RequestsBacked
  BY DEF LedgerInv
<1> QED
  BY <1>1, LedgerInvariant, PTL

(* Every redeem request was paid for by a deduction, and exactly the       *)
(* rejected ones were paid back, for any number of handlers interrupted.   *)
THEOREM RequestsAreBacked == Spec => []RequestsBacked
<1>1. RowsExplained /\ RequestsBacked => RequestsBacked
  OBVIOUS
<1> QED
  BY <1>1, RowsAndRequestsAgree, PTL

(* No player waits for two redeem requests.                                *)
THEOREM OneRequestPending == Spec => []OnePendingPerPlayer
<1>1. LedgerInv => OnePendingPerPlayer
  BY DEF LedgerInv
<1> QED
  BY <1>1, LedgerInvariant, PTL

(* A 201 means that the cashback is on the ledger.                         *)
THEOREM CreatedIsAccrued == Spec => []CreatedMeansAccrued
<1>1. LedgerInv => CreatedMeansAccrued
  BY DEF LedgerInv
<1> QED
  BY <1>1, LedgerInvariant, PTL

(* Of two purchases of a player the one recorded later has the other       *)
(* before it, so at most one of them is rated as the first.                *)
LEMMA FirstOnce == LedgerInv => FirstBonusAtMostOnce
<1> SUFFICES ASSUME LedgerInv, NEW i \in AccrualRows, NEW j \in AccrualRows,
                    ledger[i].player = ledger[j].player,
                    "first" \in ledger[i].bonus, "first" \in ledger[j].bonus
             PROVE  i = j
  BY DEF FirstBonusAtMostOnce
<1> DEFINE a == ledger[i].ref
           b == ledger[j].ref
<1>1. /\ a \in Key /\ Recorded(a) /\ Spend[a] > 0 /\ Owner[a] = ledger[i].player
      /\ b \in Key /\ Recorded(b) /\ Spend[b] > 0 /\ Owner[b] = ledger[j].player
  BY DEF LedgerInv, AccrualRows, RowsExplained, AccrualExplained
<1>2. Before(a) = {} /\ Before(b) = {}
  BY DEF LedgerInv, FirstRated
<1>3. CASE a = b
  BY <1>3 DEF LedgerInv, UniqueRows, AccrualRows
<1>4. CASE a # b
  <2>1. PICK m \in DOMAIN recorded, n \in DOMAIN recorded :
          recorded[m] = a /\ recorded[n] = b
    BY <1>1 DEF Recorded
  <2>2. m < n \/ n < m
    BY <1>4, <2>1 DEF LedgerInv, TypeOK
  <2>3. a \in History(b) /\ b \in History(a)
    BY <1>1, <1>4 DEF History
  <2>4. a \in Before(b) \/ b \in Before(a)
    BY <2>1, <2>2, <2>3 DEF Before
  <2> QED
    BY <1>2, <2>4
<1> QED
  BY <1>3, <1>4

(* The first-purchase bonus is paid at most once per player, also when     *)
(* purchases are recorded and rated concurrently.                          *)
THEOREM FirstIsRatedOnce == Spec => []FirstBonusAtMostOnce
  BY FirstOnce, LedgerInvariant, PTL

(* Ledger rows are never changed or removed, settled requests never        *)
(* change.                                                                 *)
LEMMA FinalStep == LedgerInv /\ [Next]_vars => LedgerAppendOnly /\ RequestsSettleOnce
<1> SUFFICES ASSUME LedgerInv, [Next]_vars
             PROVE  LedgerAppendOnly /\ RequestsSettleOnce
  OBVIOUS
<1>1. Effect /\ TypeOK
  BY StepEffect DEF LedgerInv
<1>2. UNCHANGED ledger \/ \E e \in Row : ledger' = Append(ledger, e)
  BY <1>1, EffectRows DEF Effect, Stored, Credited, TakenBack, Asked, InsertRedeem,
                          Settled
<1>3. LedgerAppendOnly
  BY <1>1, <1>2, RowsAfterAppend DEF LedgerAppendOnly, TypeOK
<1>4. RequestsSettleOnce
  BY <1>1, RequestsKept DEF RequestsSettleOnce
<1> QED
  BY <1>3, <1>4

(* The ledger is append-only and a settled request is settled for good, in *)
(* every behaviour.                                                        *)
THEOREM HistoryStaysFinal == Spec => HistoryIsFinal
<1>1. LedgerInv /\ [Next]_vars => [LedgerAppendOnly /\ RequestsSettleOnce]_vars
  BY FinalStep
<1> QED
  BY <1>1, LedgerInvariant, PTL DEF Spec, HistoryIsFinal

-----------------------------------------------------------------------------
(***************************************************************************)
(* The balance: what the purchases not reversed earned, minus what the     *)
(* requests claim.                                                         *)
(***************************************************************************)

(* The amounts that are summed, and the sets they are summed over: a       *)
(* player's rows, his accruals not reversed, his requests not rejected.    *)
Amounts == [i \in DOMAIN ledger |-> ledger[i].amount]
Asks == [r \in DOMAIN redeems |-> redeems[r].amount]

RowsOf(p) == {i \in DOMAIN ledger : ledger[i].player = p}
Unreversed(p) ==
  {i \in AccrualRows : ledger[i].player = p /\ ~HasRow("reversal", ledger[i].ref)}
Open(p) ==
  {r \in DOMAIN redeems : redeems[r].player = p /\ redeems[r].status # "rejected"}

(* The sums, with their sets and amounts named.                            *)
LEMMA SumsNamed ==
  ASSUME NEW p
  PROVE  /\ Balance(p) = SumFunctionOnSet(Amounts, RowsOf(p))
         /\ Claimed(p) = SumFunctionOnSet(Asks, Open(p))
         /\ BalanceReconciles <=>
              \A q \in Player : SumFunctionOnSet(Amounts, RowsOf(q))
                = SumFunctionOnSet(Amounts, Unreversed(q)) - SumFunctionOnSet(Asks, Open(q))
BY DEF Balance, Claimed, BalanceReconciles, Total, Amounts, Asks, RowsOf, Unreversed, Open

(* Sums over the rows on the ledger are integers.                          *)
LEMMA RowSums ==
  ASSUME TypeOK, NEW S, S \subseteq DOMAIN ledger
  PROVE  /\ IsFiniteSet(S) /\ \A i \in S : Amounts[i] \in Int
         /\ SumFunctionOnSet(Amounts, S) \in Int
<1>1. Len(ledger) \in Nat /\ DOMAIN ledger = 1 .. Len(ledger)
  BY DEF TypeOK
<1>2. IsFiniteSet(S)
  <2>1. IsFiniteSet(1 .. Len(ledger))
    BY <1>1, FS_Interval
  <2> QED
    BY <1>1, <2>1, FS_Subset
<1>3. \A i \in S : Amounts[i] \in Int
  <2>1. \A i \in S : ledger[i] \in Row
    BY DEF TypeOK
  <2> QED
    BY <2>1 DEF Row, Amounts
<1> QED
  BY <1>2, <1>3, SumIsInt

(* A new row adds its amount to the sums it is part of.                    *)
LEMMA SumsAfterAppend ==
  ASSUME TypeOK, NEW e \in Row, ledger' = Append(ledger, e), NEW S, S \subseteq DOMAIN ledger
  PROVE  /\ SumFunctionOnSet(Amounts', S) = SumFunctionOnSet(Amounts, S)
         /\ SumFunctionOnSet(Amounts', S \cup {Len(ledger) + 1})
              = e.amount + SumFunctionOnSet(Amounts, S)
<1> PICK a : a = Amounts
  OBVIOUS
<1> PICK b : b = Amounts'
  OBVIOUS
<1> PICK x : x = Len(ledger) + 1
  OBVIOUS
<1>0. /\ DOMAIN ledger' = DOMAIN ledger \cup {x} /\ ledger'[x] = e
      /\ \A i \in DOMAIN ledger : ledger'[i] = ledger[i] /\ i <= Len(ledger)
      /\ Len(ledger) \in Nat
  BY RowsAfterAppend DEF TypeOK
<1>1. /\ \A i \in S : b[i] = a[i] /\ a[i] \in Int
      /\ x \notin S /\ b[x] = e.amount /\ e.amount \in Int
  <2>1. \A i \in S : a[i] \in Int
    BY RowSums
  <2>2. \A i \in S : b[i] = a[i]
    BY <1>0 DEF Amounts
  <2>3. x \notin S /\ b[x] = e.amount
    BY <1>0 DEF Amounts
  <2>4. e.amount \in Int
    BY DEF Row
  <2> QED
    BY <2>1, <2>2, <2>3, <2>4
<1>2. IsFiniteSet(S)
  BY RowSums
<1> HIDE DEF Amounts
<1>3. SumFunctionOnSet(b, S) = SumFunctionOnSet(a, S)
  BY <1>1, <1>2, SumSame
<1>4. SumFunctionOnSet(b, S \cup {x}) = b[x] + SumFunctionOnSet(b, S)
  BY <1>1, <1>2, SumWith
<1> QED
  BY <1>1, <1>3, <1>4

(* What a request adds to, or takes from, what its player claims.          *)
LEMMA AskSums ==
  ASSUME TypeOK, IsFiniteSet(DOMAIN redeems), NEW S, S \subseteq DOMAIN redeems
  PROVE  /\ IsFiniteSet(S) /\ \A r \in S : Asks[r] \in Int
         /\ SumFunctionOnSet(Asks, S) \in Int
<1>1. IsFiniteSet(S)
  BY FS_Subset
<1>2. \A r \in S : Asks[r] \in Int
  BY DEF TypeOK, RedeemRow, Asks
<1> QED
  BY <1>1, <1>2, SumIsInt

(* BalanceReconciles, for one player.                                      *)
Reconciles(p) ==
  SumFunctionOnSet(Amounts, RowsOf(p))
    = SumFunctionOnSet(Amounts, Unreversed(p)) - SumFunctionOnSet(Asks, Open(p))

(* The sets that are summed, after an insert.                              *)
LEMMA SetsAfterAppend ==
  ASSUME TypeOK, NEW e \in Row, ledger' = Append(ledger, e), NEW p
  PROVE  /\ RowsOf(p)' = IF e.player = p THEN RowsOf(p) \cup {Len(ledger) + 1}
                                         ELSE RowsOf(p)
         /\ e.kind = "accrual" /\ ~HasRow("reversal", e.ref) =>
              Unreversed(p)' = IF e.player = p THEN Unreversed(p) \cup {Len(ledger) + 1}
                                               ELSE Unreversed(p)
         /\ e.kind = "reversal" =>
              Unreversed(p)' = {i \in Unreversed(p) : ledger[i].ref # e.ref}
         /\ e.kind \in {"redeem", "redeem_return"} => Unreversed(p)' = Unreversed(p)
<1> PICK x : x = Len(ledger) + 1
  OBVIOUS
<1>1. /\ DOMAIN ledger' = DOMAIN ledger \cup {x} /\ ledger'[x] = e
      /\ \A i \in DOMAIN ledger : ledger'[i] = ledger[i]
      /\ \A kind, ref : HasRow(kind, ref)'
           <=> HasRow(kind, ref) \/ (e.kind = kind /\ e.ref = ref)
  BY RowsAfterAppend
<1>2. \A i \in DOMAIN ledger : i # x
  BY RowsAfterAppend DEF TypeOK
<1>3. RowsOf(p)' = IF e.player = p THEN RowsOf(p) \cup {x} ELSE RowsOf(p)
  BY <1>1 DEF RowsOf
<1>4. ASSUME NEW i
      PROVE  i \in Unreversed(p)'
               <=> \/ /\ i \in Unreversed(p)
                      /\ ~(e.kind = "reversal" /\ e.ref = ledger[i].ref)
                   \/ /\ i = x /\ e.kind = "accrual" /\ e.player = p
                      /\ ~HasRow("reversal", e.ref)
  BY <1>1, <1>2 DEF Unreversed, AccrualRows
<1> PICK U : U = Unreversed(p)
  OBVIOUS
<1> PICK V : V = Unreversed(p)'
  OBVIOUS
<1>5. ASSUME e.kind = "accrual", ~HasRow("reversal", e.ref)
      PROVE  V = IF e.player = p THEN U \cup {x} ELSE U
  BY <1>4, <1>5
<1>6. ASSUME e.kind = "reversal"
      PROVE  V = {i \in U : ledger[i].ref # e.ref}
  BY <1>4, <1>6
<1>7. ASSUME e.kind \in {"redeem", "redeem_return"}
      PROVE  V = U
  BY <1>4, <1>7
<1> QED
  BY <1>3, <1>5, <1>6, <1>7

(* A purchase without an accrual has no reversal either.                   *)
LEMMA NoReversalYet ==
  ASSUME TypeOK, RowsExplained, NEW k, HasRow("reversal", k)
  PROVE  HasRow("accrual", k)
<1>1. PICK i \in DOMAIN ledger : ledger[i].kind = "reversal" /\ ledger[i].ref = k
  BY DEF HasRow
<1>2. PICK j \in 1 .. (i - 1) : ledger[j].kind = "accrual" /\ ledger[j].ref = k
  BY <1>1 DEF RowsExplained, ReversalExplained
<1>3. j \in DOMAIN ledger
  BY DEF TypeOK
<1> QED
  BY <1>2, <1>3 DEF HasRow

(* An accrual adds its amount to the balance and to what was earned.       *)
LEMMA CreditReconciles ==
  ASSUME LedgerInv, NEW k \in Key, NEW bonus \in SUBSET Bonus, Credited(k, bonus),
         NEW p \in Player, Reconciles(p), IsFiniteSet(DOMAIN redeems)
  PROVE  Reconciles(p)'
<1> PICK e : e = AccrualRow(k, bonus)
  OBVIOUS
<1>1. /\ e \in Row /\ ledger' = Append(ledger, e) /\ UNCHANGED redeems
      /\ e.kind = "accrual" /\ e.player = Owner[k] /\ e.ref = k
      /\ ~HasRow("reversal", e.ref)
  BY EffectRows, NoReversalYet DEF LedgerInv, Credited, AccrualRow
<1>2. TypeOK
  BY DEF LedgerInv
<1> PICK M, U, C, x : M = RowsOf(p) /\ U = Unreversed(p) /\ C = Open(p) /\ x = Len(ledger) + 1
  OBVIOUS
<1>3. /\ RowsOf(p)' = IF e.player = p THEN M \cup {x} ELSE M
      /\ Unreversed(p)' = IF e.player = p THEN U \cup {x} ELSE U
  BY <1>1, <1>2, SetsAfterAppend
<1>4. Open(p)' = C /\ Asks' = Asks
  BY <1>1 DEF Open, Asks
<1>5. M \subseteq DOMAIN ledger /\ U \subseteq DOMAIN ledger /\ C \subseteq DOMAIN redeems
  BY DEF RowsOf, Unreversed, AccrualRows, Open
<1> PICK m, u, c : /\ m = SumFunctionOnSet(Amounts, M) /\ u = SumFunctionOnSet(Amounts, U)
                   /\ c = SumFunctionOnSet(Asks, C)
  OBVIOUS
<1>6. m \in Int /\ u \in Int /\ c \in Int /\ m = u - c
  BY <1>2, <1>5, RowSums, AskSums DEF Reconciles
<1>7. /\ SumFunctionOnSet(Amounts', M) = m /\ SumFunctionOnSet(Amounts', U) = u
      /\ SumFunctionOnSet(Amounts', M \cup {x}) = e.amount + m
      /\ SumFunctionOnSet(Amounts', U \cup {x}) = e.amount + u
  BY <1>1, <1>2, <1>5, SumsAfterAppend
<1>8. e.amount \in Int
  BY <1>1 DEF Row
<1>9. e.amount + m = (e.amount + u) - c
  BY <1>6, <1>8
<1> QED
  BY <1>3, <1>4, <1>6, <1>7, <1>9 DEF Reconciles

LEMMA TakenOut ==
  \A x, y, z \in Int : (-x) + ((x + y) - z) = y - z
OBVIOUS

(* A reversal takes one accrual out of what counts as earned, and its      *)
(* amount out of the balance.                                              *)
LEMMA TakeBackReconciles ==
  ASSUME LedgerInv, NEW k \in Key, TakenBack(k),
         NEW p \in Player, Reconciles(p), IsFiniteSet(DOMAIN redeems)
  PROVE  Reconciles(p)'
<1> PICK e : e = ReversalRow(k)
  OBVIOUS
<1>1. /\ e \in Row /\ ledger' = Append(ledger, e) /\ UNCHANGED redeems
      /\ e.kind = "reversal" /\ e.player = Owner[k] /\ e.ref = k
      /\ e.amount = -RowOf("accrual", k).amount
  BY EffectRows DEF LedgerInv, TakenBack, ReversalRow
<1>2. TypeOK /\ UniqueRows /\ RowsExplained
  BY DEF LedgerInv
<1>3. PICK j \in DOMAIN ledger :
        ledger[j].kind = "accrual" /\ ledger[j].ref = k /\ RowOf("accrual", k) = ledger[j]
  BY DEF TakenBack, HasRow, RowOf
<1>4. ledger[j].player = Owner[k]
  BY <1>2, <1>3 DEF RowsExplained, AccrualExplained
<1> PICK M, U, C, x : M = RowsOf(p) /\ U = Unreversed(p) /\ C = Open(p) /\ x = Len(ledger) + 1
  OBVIOUS
<1>5. /\ RowsOf(p)' = IF Owner[k] = p THEN M \cup {x} ELSE M
      /\ Unreversed(p)' = {i \in U : ledger[i].ref # k}
  BY <1>1, <1>2, SetsAfterAppend
<1>6. \A i \in U : ledger[i].ref = k <=> i = j
  BY <1>2, <1>3 DEF Unreversed, AccrualRows, UniqueRows
<1>7. j \in U <=> Owner[k] = p
  BY <1>3, <1>4 DEF TakenBack, Unreversed, AccrualRows
<1>8. Unreversed(p)' = IF Owner[k] = p THEN U \ {j} ELSE U
  <2> PICK V : V = Unreversed(p)'
    OBVIOUS
  <2>1. V = IF Owner[k] = p THEN U \ {j} ELSE U
    BY <1>5, <1>6, <1>7
  <2> QED
    BY <2>1
<1>9. Open(p)' = C /\ Asks' = Asks
  BY <1>1 DEF Open, Asks
<1>10. M \subseteq DOMAIN ledger /\ U \subseteq DOMAIN ledger /\ C \subseteq DOMAIN redeems
  BY DEF RowsOf, Unreversed, AccrualRows, Open
<1> PICK m, u, v, c, y : /\ m = SumFunctionOnSet(Amounts, M) /\ u = SumFunctionOnSet(Amounts, U)
                         /\ v = SumFunctionOnSet(Amounts, U \ {j})
                         /\ c = SumFunctionOnSet(Asks, C) /\ y = Amounts[j]
  OBVIOUS
<1>11. m \in Int /\ u \in Int /\ v \in Int /\ c \in Int /\ m = u - c
  BY <1>2, <1>10, RowSums, AskSums DEF Reconciles
<1>12. /\ SumFunctionOnSet(Amounts', M) = m /\ SumFunctionOnSet(Amounts', U) = u
       /\ SumFunctionOnSet(Amounts', M \cup {x}) = e.amount + m
       /\ SumFunctionOnSet(Amounts', U \ {j}) = v
  BY <1>1, <1>2, <1>10, SumsAfterAppend
<1>13. y \in Int /\ e.amount = -y
  BY <1>1, <1>2, <1>3, RowSums DEF Amounts
<1>14. Owner[k] = p => u = y + v
  <2>1. IsFiniteSet(U) /\ \A i \in U : Amounts[i] \in Int
    BY <1>2, <1>10, RowSums
  <2>2. j \in U => SumFunctionOnSet(Amounts, U) = Amounts[j] + SumFunctionOnSet(Amounts, U \ {j})
    <3> HIDE DEF Amounts
    <3> QED
      BY <2>1, SumWithout
  <2> QED
    BY <1>7, <2>2
<1>15. Owner[k] = p => e.amount + m = v - c
  <2>1. y \in Int /\ v \in Int /\ c \in Int
    BY <1>11, <1>13
  <2>2. (-y) + ((y + v) - c) = v - c
    BY <2>1, TakenOut
  <2> QED
    BY <1>11, <1>13, <1>14, <2>2
<1> QED
  BY <1>5, <1>8, <1>9, <1>11, <1>12, <1>15 DEF Reconciles

(* A redeem request moves its amount from the balance to the claims.       *)
LEMMA AskReconciles ==
  ASSUME LedgerInv, NEW r \in Request, NEW q \in Player, NEW amount \in Int, Asked(r, q, amount),
         NEW p \in Player, Reconciles(p), IsFiniteSet(DOMAIN redeems)
  PROVE  Reconciles(p)'
<1> PICK e : e = [kind |-> "redeem", player |-> q, ref |-> r, bonus |-> {}, amount |-> -amount]
  OBVIOUS
<1>1. /\ e \in Row /\ ledger' = Append(ledger, e) /\ e.kind = "redeem" /\ e.player = q
      /\ e.amount = -amount
  BY EffectRows DEF LedgerInv, Asked, InsertRedeem
<1>2. /\ TypeOK /\ r \notin DOMAIN redeems
      /\ redeems' = [s \in DOMAIN redeems \cup {r} |->
                       IF s = r THEN [player |-> q, amount |-> amount, status |-> "pending"]
                                ELSE redeems[s]]
  BY DEF LedgerInv, Asked, InsertRedeem
<1> PICK M, U, C, x : M = RowsOf(p) /\ U = Unreversed(p) /\ C = Open(p) /\ x = Len(ledger) + 1
  OBVIOUS
<1> PICK a : a = Asks
  OBVIOUS
<1> PICK b : b = Asks'
  OBVIOUS
<1>3. RowsOf(p)' = (IF q = p THEN M \cup {x} ELSE M) /\ Unreversed(p)' = U
  BY <1>1, <1>2, SetsAfterAppend
<1>4. /\ Open(p)' = IF q = p THEN C \cup {r} ELSE C
      /\ b[r] = amount /\ r \notin C /\ \A s \in C : b[s] = a[s]
  BY <1>2 DEF Open, Asks
<1>5. M \subseteq DOMAIN ledger /\ U \subseteq DOMAIN ledger /\ C \subseteq DOMAIN redeems
  BY DEF RowsOf, Unreversed, AccrualRows, Open
<1> PICK m, u, c : /\ m = SumFunctionOnSet(Amounts, M) /\ u = SumFunctionOnSet(Amounts, U)
                   /\ c = SumFunctionOnSet(a, C)
  OBVIOUS
<1>6. m \in Int /\ u \in Int /\ c \in Int /\ m = u - c
  BY <1>2, <1>5, RowSums, AskSums DEF Reconciles
<1>7. /\ SumFunctionOnSet(Amounts', M) = m /\ SumFunctionOnSet(Amounts', U) = u
      /\ SumFunctionOnSet(Amounts', M \cup {x}) = e.amount + m
  BY <1>1, <1>2, <1>5, SumsAfterAppend
<1>8. IsFiniteSet(C) /\ \A s \in C : a[s] \in Int
  BY <1>2, <1>5, AskSums
<1>9. SumFunctionOnSet(b, C) = c /\ SumFunctionOnSet(b, C \cup {r}) = amount + c
  <2>1. SumFunctionOnSet(b, C) = c
    BY <1>4, <1>8, SumSame
  <2>2. \A s \in C \cup {r} : b[s] \in Int
    BY <1>4, <1>8
  <2>3. SumFunctionOnSet(b, C \cup {r}) = b[r] + SumFunctionOnSet(b, C)
    BY <1>4, <1>8, <2>2, SumWith
  <2> QED
    BY <1>4, <2>1, <2>3
<1>10. e.amount + m = u - (amount + c)
  BY <1>1, <1>6
<1> QED
  BY <1>3, <1>4, <1>6, <1>7, <1>9, <1>10 DEF Reconciles

(* A settled request stays claimed when paid out; a rejected one moves its *)
(* amount back to the balance.                                             *)
LEMMA SettleReconciles ==
  ASSUME LedgerInv, NEW r \in Request, NEW status \in {"completed", "rejected"},
         Settled(r, status), NEW p \in Player, Reconciles(p), IsFiniteSet(DOMAIN redeems)
  PROVE  Reconciles(p)'
<1>1. /\ TypeOK /\ r \in DOMAIN redeems /\ redeems[r].status = "pending"
      /\ redeems[r] \in RedeemRow
      /\ redeems' = [redeems EXCEPT ![r] = [player |-> redeems[r].player,
                                            amount |-> redeems[r].amount, status |-> status]]
  BY DEF LedgerInv, TypeOK, Settled, SetStatus
<1>2. /\ DOMAIN redeems' = DOMAIN redeems
      /\ \A s \in DOMAIN redeems : /\ redeems'[s].player = redeems[s].player
                                   /\ redeems'[s].amount = redeems[s].amount
                                   /\ s # r => redeems'[s].status = redeems[s].status
      /\ redeems'[r].status = status
  BY <1>1
<1>3. Asks' = Asks
  BY <1>2 DEF Asks
<1> PICK M, U, C, x : M = RowsOf(p) /\ U = Unreversed(p) /\ C = Open(p) /\ x = Len(ledger) + 1
  OBVIOUS
<1>4. Open(p)' = IF status = "rejected" /\ redeems[r].player = p THEN C \ {r} ELSE C
  BY <1>1, <1>2 DEF Open
<1>5. CASE status = "completed"
  <2>1. UNCHANGED ledger
    BY <1>5 DEF Settled
  <2>2. RowsOf(p)' = RowsOf(p) /\ Unreversed(p)' = Unreversed(p) /\ Amounts' = Amounts
    BY <2>1 DEF RowsOf, Unreversed, Amounts, AccrualRows, HasRow
  <2> QED
    BY <1>3, <1>4, <1>5, <2>2 DEF Reconciles
<1>6. CASE status = "rejected"
  <2> PICK e : e = ReturnRow(r)
    OBVIOUS
  <2>1. /\ e \in Row /\ ledger' = Append(ledger, e) /\ e.kind = "redeem_return"
        /\ e.player = redeems[r].player /\ e.amount = redeems[r].amount
    BY <1>1, <1>6, EffectRows DEF Settled, ReturnRow
  <2>2. RowsOf(p)' = (IF e.player = p THEN M \cup {x} ELSE M) /\ Unreversed(p)' = U
    BY <1>1, <2>1, SetsAfterAppend
  <2>3. M \subseteq DOMAIN ledger /\ U \subseteq DOMAIN ledger /\ C \subseteq DOMAIN redeems
    BY DEF RowsOf, Unreversed, AccrualRows, Open
  <2>4. PICK m, u, c, d, y :
          /\ m = SumFunctionOnSet(Amounts, M) /\ u = SumFunctionOnSet(Amounts, U)
          /\ c = SumFunctionOnSet(Asks, C) /\ d = SumFunctionOnSet(Asks, C \ {r})
          /\ y = redeems[r].amount
    OBVIOUS
  <2>5. m \in Int /\ u \in Int /\ c \in Int /\ d \in Int /\ m = u - c
    BY <1>1, <2>3, <2>4, RowSums, AskSums DEF Reconciles
  <2>6. /\ SumFunctionOnSet(Amounts', M) = m /\ SumFunctionOnSet(Amounts', U) = u
        /\ SumFunctionOnSet(Amounts', M \cup {x}) = e.amount + m
    BY <1>1, <2>1, <2>3, <2>4, SumsAfterAppend
  <2>7. y \in Int /\ Asks[r] = y /\ e.amount = y
    BY <1>1, <2>1, <2>4 DEF RedeemRow, Asks
  <2>8. e.player = p => c = y + d
    <3>1. IsFiniteSet(C) /\ \A s \in C : Asks[s] \in Int
      BY <1>1, <2>3, AskSums
    <3>2. e.player = p => r \in C
      BY <1>1, <2>1 DEF Open
    <3>3. r \in C => SumFunctionOnSet(Asks, C) = Asks[r] + SumFunctionOnSet(Asks, C \ {r})
      <4> HIDE DEF Asks
      <4> QED
        BY <3>1, SumWithout
    <3> QED
      BY <2>4, <2>7, <3>2, <3>3
  <2>9. e.player = p => e.amount + m = u - d
    BY <2>5, <2>7, <2>8
  <2> QED
    BY <1>3, <1>4, <1>6, <2>1, <2>2, <2>4, <2>5, <2>6, <2>9 DEF Reconciles
<1> QED
  BY <1>5, <1>6

(* Requests are finitely many, so that there is a sum of them.             *)
BalanceInv ==
  /\ LedgerInv
  /\ IsFiniteSet(DOMAIN redeems)
  /\ BalanceReconciles

LEMMA InitBalance == Init => BalanceInv
<1> SUFFICES ASSUME Init PROVE IsFiniteSet(DOMAIN redeems) /\ BalanceReconciles
  BY InitInv DEF BalanceInv
<1>1. IsFiniteSet(DOMAIN redeems)
  BY FS_EmptySet DEF Init
<1>2. \A p : RowsOf(p) = {} /\ Unreversed(p) = {} /\ Open(p) = {}
  BY DEF Init, RowsOf, Unreversed, AccrualRows, Open
<1>3. \A p : Reconciles(p)
  BY <1>2, SumOfNone DEF Reconciles
<1> QED
  BY <1>1, <1>3, SumsNamed DEF Reconciles

LEMMA StepBalance == BalanceInv /\ [Next]_vars => BalanceInv'
<1> SUFFICES ASSUME BalanceInv, [Next]_vars PROVE BalanceInv'
  OBVIOUS
<1>1. LedgerInv /\ LedgerInv' /\ Effect /\ IsFiniteSet(DOMAIN redeems)
  BY StepInv, StepEffect DEF BalanceInv
<1>2. IsFiniteSet(DOMAIN redeems)'
  <2>1. \/ DOMAIN redeems' = DOMAIN redeems
        \/ \E r \in Request : DOMAIN redeems' = DOMAIN redeems \cup {r}
    BY <1>1 DEF Effect, Stored, Credited, TakenBack, Asked, InsertRedeem, Settled, SetStatus
  <2> QED
    BY <1>1, <2>1, FS_AddElement
<1>3. ASSUME NEW p \in Player PROVE Reconciles(p)'
  <2>1. Reconciles(p)
    BY SumsNamed DEF BalanceInv, Reconciles
  <2>2. ASSUME UNCHANGED <<ledger, redeems>> PROVE Reconciles(p)'
    <3>1. /\ RowsOf(p)' = RowsOf(p) /\ Unreversed(p)' = Unreversed(p) /\ Open(p)' = Open(p)
          /\ Amounts' = Amounts /\ Asks' = Asks
      BY <2>2 DEF RowsOf, Unreversed, AccrualRows, HasRow, Open, Amounts, Asks
    <3> QED
      BY <2>1, <3>1 DEF Reconciles
  <2> QED
    BY <1>1, <2>1, <2>2, CreditReconciles, TakeBackReconciles, AskReconciles, SettleReconciles
       DEF Effect, Stored
<1>4. BalanceReconciles'
  BY <1>3 DEF Reconciles, BalanceReconciles, Balance, Total, Claimed, Amounts, Asks,
              RowsOf, Unreversed, Open
<1> QED
  BY <1>1, <1>2, <1>4 DEF BalanceInv

(* BalanceReconciles: SUM(amount) is what the purchases not reversed       *)
(* earned, minus the requests that are pending or paid out.                *)
THEOREM BalancesReconcile == Spec => []BalanceReconciles
<1>1. BalanceInv => BalanceReconciles
  BY DEF BalanceInv
<1> QED
  BY InitBalance, StepBalance, <1>1, PTL DEF Spec

-----------------------------------------------------------------------------
(***************************************************************************)
(* The bonuses: what was earned when the purchase was recorded is not lost *)
(* by a late rating.                                                       *)
(***************************************************************************)

(* A rating with these bonuses has the ones that the history before the    *)
(* purchase had earned: loyal, streak.                                     *)
LoyalKept(k, bonus) ==
  SumFunctionOnSet(Spend, Before(k)) >= LoyalSpendThreshold => "loyal" \in bonus

StreakKept(k, bonus) ==
  (\A d \in 1 .. (StreakDays - 1) : \E j \in Before(k) : Day[j] = Day[k] - d)
    => "streak" \in bonus

(* A handler has asked for what the history before the purchase had earned *)
(* by then.                                                                *)
BonusReady(w) ==
  /\ call[w].at \in {"days", "accrue"} => LoyalKept(call[w].key, call[w].bonus)
  /\ call[w].at = "accrue" => StreakKept(call[w].key, call[w].bonus)

(* The invariant of NoEarnedBonusLost.                                     *)
BonusInv ==
  /\ LedgerInv
  /\ \A w \in Worker : BonusReady(w)
  /\ NoEarnedBonusLost

(* The history before a purchase is part of what SpendStats sees later.    *)
LEMMA HistoryHolds ==
  ASSUME TypeOK, NEW k \in Key
  PROVE  /\ SumFunctionOnSet(Spend, Before(k)) \in Nat /\ LifetimeSpend(k) \in Nat
         /\ SumFunctionOnSet(Spend, Before(k)) <= LifetimeSpend(k)
<1>1. Before(k) \subseteq History(k)
  BY DEF Before
<1>2. IsFiniteSet(History(k))
  <2> DEFINE All == {recorded[i] : i \in 1 .. Len(recorded)}
  <2>1. History(k) \subseteq All
    BY DEF History, Recorded, TypeOK
  <2>2. IsFiniteSet(1 .. Len(recorded))
    <3>1. Len(recorded) \in Int /\ 1 \in Int
      BY DEF TypeOK
    <3> QED
      BY <3>1, FS_Interval
  <2>3. IsFiniteSet(All)
    <3>1. recorded \in Surjection(1 .. Len(recorded), All)
      BY DEF Surjection, TypeOK
    <3> HIDE DEF All
    <3> QED
      BY <2>2, <3>1, FS_Surjection
  <2> QED
    BY <2>1, <2>3, FS_Subset
<1>3. \A j \in History(k) : Spend[j] \in Nat
  BY LedgerConstants DEF History
<1> QED
  BY <1>1, <1>2, <1>3, SumGrows, SumIsNat, FS_Subset DEF LifetimeSpend

(* The history before a recorded purchase is fixed, so a rating stays      *)
(* right.                                                                  *)
LEMMA BonusKept ==
  ASSUME LedgerInv, [Next]_vars, NEW k \in Key, Recorded(k), NEW bonus
  PROVE  /\ LoyalKept(k, bonus) => LoyalKept(k, bonus)'
         /\ StreakKept(k, bonus) => StreakKept(k, bonus)'
<1>1. Before(k)' = Before(k)
  BY Monotone, StepEffect DEF LedgerInv
<1> QED
  BY <1>1 DEF LoyalKept, StreakKept

(* What a handler holds that is about to credit or to deduct comes from a  *)
(* query of its own.                                                       *)
LEMMA HeldFrom ==
  ASSUME LedgerInv, [Next]_vars, NEW w \in Worker, call'[w].at \in {"days", "accrue", "redeem"}
  PROVE  \/ call'[w] = call[w]
         \/ ReadTotals(w) \/ ReadDays(w) \/ \E p \in Player : ReadBalance(w, p)
<1> DEFINE Held == \/ call'[w] = call[w]
                   \/ ReadTotals(w) \/ ReadDays(w) \/ \E p \in Player : ReadBalance(w, p)
<1>1. ASSUME NEW v \in Worker, NEW c, call' = [call EXCEPT ![v] = c],
             c.at \notin {"days", "accrue", "redeem"} \/ v # w
      PROVE  Held
  BY <1>1 DEF LedgerInv, TypeOK
<1>2. ASSUME NEW v \in Worker,
             ReadTotals(v) \/ ReadDays(v) \/ \E p \in Player : ReadBalance(v, p)
      PROVE  Held
  <2>1. CASE v = w
    BY <1>2, <2>1
  <2> HIDE DEF Held
  <2>2. CASE v # w
    BY <1>1, <1>2, <2>2 DEF ReadTotals, ReadDays, ReadBalance
  <2> QED
    BY <2>1, <2>2
<1> HIDE DEF Held
<1>3. ASSUME NEW v \in Worker,
             \/ \E k \in Key : Lookup(v, k)
             \/ \E k \in Refundable : FindAccrual(v, k)
             \/ InsertTransaction(v) \/ RereadWinner(v)
             \/ Accrue(v) \/ Reply(v) \/ CreateRedeem(v) \/ Reverse(v) \/ Fail(v)
      PROVE  Held
  <2>1. \A k, r : Accruing(k, r).at \notin {"days", "accrue", "redeem"}
    BY DEF Accruing
  <2>2. CASE \E k \in Key : Lookup(v, k)
    BY <1>1, <2>1, <2>2 DEF Lookup
  <2>3. CASE InsertTransaction(v)
    BY <1>1, <2>1, <2>3 DEF InsertTransaction
  <2>4. CASE \E k \in Refundable : FindAccrual(v, k)
    BY <1>1, <2>4 DEF FindAccrual
  <2>5. CASE RereadWinner(v) \/ Accrue(v)
    BY <1>1, <2>5 DEF RereadWinner, Accrue
  <2>6. CASE Reply(v) \/ CreateRedeem(v) \/ Reverse(v) \/ Fail(v)
    BY <1>1, <2>6 DEF Reply, CreateRedeem, Reverse, Fail, Idle
  <2> QED
    BY <1>3, <2>2, <2>3, <2>4, <2>5, <2>6
<1>4. UNCHANGED call => Held
  BY DEF Held
<1>5. UNCHANGED vars => UNCHANGED call
  BY DEF vars
<1>6. ASSUME NEW r \in Request, NEW status \in {"completed", "rejected"}, ResolveRedeem(r, status)
      PROVE  UNCHANGED call
  BY <1>6 DEF ResolveRedeem
<1>7. Held
  BY <1>2, <1>3, <1>4, <1>5, <1>6 DEF Next, Purchase
<1> QED
  BY <1>7 DEF Held

(* An accrual that was not there before is written by a handler that had   *)
(* asked for all its bonuses.                                              *)
LEMMA NewAccruals ==
  ASSUME LedgerInv, [Next]_vars, NEW i \in AccrualRows'
  PROVE  \/ i \in AccrualRows /\ ledger'[i] = ledger[i]
         \/ \E w \in Worker : /\ call[w].at = "accrue" /\ call[w].key \in Key
                              /\ Recorded(call[w].key)
                              /\ ledger'[i].ref = call[w].key
                              /\ ledger'[i].bonus = call[w].bonus
<1> DEFINE Explained == \/ i \in AccrualRows /\ ledger'[i] = ledger[i]
                        \/ \E w \in Worker : /\ call[w].at = "accrue" /\ call[w].key \in Key
                                             /\ Recorded(call[w].key)
                                             /\ ledger'[i].ref = call[w].key
                                             /\ ledger'[i].bonus = call[w].bonus
<1>1. CASE UNCHANGED ledger
  BY <1>1 DEF AccrualRows
<1>2. ASSUME NEW e \in Row, ledger' = Append(ledger, e)
      PROVE  \/ i \in AccrualRows /\ ledger'[i] = ledger[i]
             \/ ledger'[i] = e /\ e.kind = "accrual"
  <2>1. TypeOK
    BY DEF LedgerInv
  <2> QED
    BY <1>2, <2>1, RowsAfterAppend DEF AccrualRows
<1>3. ASSUME NEW k \in Key, NEW bonus \in SUBSET Bonus, Credited(k, bonus)
      PROVE  Explained
  <2> PICK e : e = AccrualRow(k, bonus)
    OBVIOUS
  <2>1. e \in Row /\ ledger' = Append(ledger, e) /\ e.ref = k /\ e.bonus = bonus
    BY <1>3, EffectRows DEF LedgerInv, Credited, AccrualRow
  <2> QED
    BY <1>2, <1>3, <2>1 DEF Credited
<1>4. ASSUME NEW k \in Key, TakenBack(k)
      PROVE  Explained
  <2>1. /\ ReversalRow(k) \in Row /\ ledger' = Append(ledger, ReversalRow(k))
        /\ ReversalRow(k).kind = "reversal"
    BY <1>4, EffectRows DEF LedgerInv, TakenBack, ReversalRow
  <2> QED
    BY <1>2, <2>1
<1>5. ASSUME NEW r \in Request, NEW p \in Player, NEW amount \in Int, Asked(r, p, amount)
      PROVE  Explained
  <2> DEFINE e == [kind |-> "redeem", player |-> p, ref |-> r, bonus |-> {}, amount |-> -amount]
  <2>1. e \in Row /\ ledger' = Append(ledger, e) /\ e.kind = "redeem"
    BY <1>5, EffectRows DEF LedgerInv, Asked, InsertRedeem
  <2> HIDE DEF e
  <2> QED
    BY <1>2, <2>1
<1>6. ASSUME NEW r \in Request, NEW status \in {"completed", "rejected"}, Settled(r, status)
      PROVE  Explained
  <2>1. \/ UNCHANGED ledger
        \/ ReturnRow(r) \in Row /\ ledger' = Append(ledger, ReturnRow(r))
    BY <1>6, EffectRows DEF LedgerInv, Settled
  <2>2. ReturnRow(r).kind = "redeem_return"
    BY DEF ReturnRow
  <2> QED
    BY <1>1, <1>2, <2>1, <2>2
<1> HIDE DEF Explained
<1>7. UNCHANGED ledger => Explained
  BY <1>1 DEF Explained
<1>8. Explained
  BY <1>3, <1>4, <1>5, <1>6, <1>7, StepEffect DEF Effect, Stored
<1> QED
  BY <1>8 DEF Explained

LEMMA StepBonus == BonusInv /\ [Next]_vars => BonusInv'
<1> SUFFICES ASSUME BonusInv, [Next]_vars PROVE BonusInv'
  OBVIOUS
<1>1. LedgerInv /\ LedgerInv'
  BY StepInv DEF BonusInv
<1>2. ASSUME NEW w \in Worker PROVE BonusReady(w)'
  <2> SUFFICES ASSUME call'[w].at \in {"days", "accrue"} PROVE BonusReady(w)'
    BY DEF BonusReady
  <2>1. CASE call'[w] = call[w]
    <3>1. call[w].key \in Key /\ Recorded(call[w].key) /\ BonusReady(w)
      BY <1>1, <2>1, CallShape DEF LedgerInv, HandlersReady, RatingReady, AccrueCall, BonusInv
    <3> PICK k, bonus : k = call[w].key /\ bonus = call[w].bonus
      OBVIOUS
    <3>2. /\ LoyalKept(k, bonus) => LoyalKept(k, bonus)'
          /\ StreakKept(k, bonus) => StreakKept(k, bonus)'
      BY <1>1, <3>1, BonusKept
    <3> QED
      BY <2>1, <3>1, <3>2 DEF BonusReady, LoyalKept, StreakKept
  <2>2. CASE ReadTotals(w)
    <3> PICK k : k = call[w].key
      OBVIOUS
    <3>1. k \in Key /\ Recorded(k)
      BY <1>1, <2>2, CallShape DEF ReadTotals, LedgerInv, HandlersReady, RatingReady, AccrueCall
    <3> PICK bonus : bonus = call'[w].bonus
      OBVIOUS
    <3>2. /\ call'[w].at = "days" /\ call'[w].key = k
          /\ LifetimeSpend(k) >= LoyalSpendThreshold => "loyal" \in bonus
      <4>1. PICK part : call' = [call EXCEPT ![w] =
                [at |-> "days", key |-> k,
                 bonus |-> part \cup (IF LifetimeSpend(k) >= LoyalSpendThreshold
                                        THEN {"loyal"} ELSE {}),
                 replay |-> call[w].replay]]
        BY <2>2 DEF ReadTotals
      <4>2. call'[w] = [at |-> "days", key |-> k,
                        bonus |-> part \cup (IF LifetimeSpend(k) >= LoyalSpendThreshold
                                               THEN {"loyal"} ELSE {}),
                        replay |-> call[w].replay]
        BY <1>1, <4>1 DEF LedgerInv, TypeOK
      <4> QED
        BY <4>2
    <3>3. LoyalKept(k, bonus)
      <4> PICK b, l : b = SumFunctionOnSet(Spend, Before(k)) /\ l = LifetimeSpend(k)
        OBVIOUS
      <4>1. b \in Nat /\ l \in Nat /\ b <= l
        BY <1>1, <3>1, HistoryHolds DEF LedgerInv
      <4>2. b >= LoyalSpendThreshold => l >= LoyalSpendThreshold
        BY <4>1 DEF LoyalSpendThreshold
      <4> QED
        BY <3>2, <4>2 DEF LoyalKept
    <3>4. LoyalKept(k, bonus)'
      BY <1>1, <3>1, <3>3, BonusKept
    <3> QED
      BY <3>2, <3>4 DEF BonusReady, LoyalKept
  <2>3. CASE ReadDays(w)
    <3> PICK k, old : k = call[w].key /\ old = call[w].bonus
      OBVIOUS
    <3>1. k \in Key /\ Recorded(k) /\ LoyalKept(k, old)
      BY <1>1, <2>3, CallShape DEF ReadDays, LedgerInv, HandlersReady, RatingReady, AccrueCall,
                                   BonusInv, BonusReady
    <3> PICK bonus : bonus = call'[w].bonus
      OBVIOUS
    <3>2. /\ call'[w].at = "accrue" /\ call'[w].key = k /\ old \subseteq bonus
          /\ (\A d \in 1 .. (StreakDays - 1) : SpentOn(k, Day[k] - d)) => "streak" \in bonus
      <4> DEFINE streak == \A d \in 1 .. (StreakDays - 1) : SpentOn(k, Day[k] - d)
      <4> HIDE DEF streak
      <4>1. call' = [call EXCEPT ![w] = [at |-> "accrue", key |-> k,
                                         bonus |-> old \cup (IF streak THEN {"streak"} ELSE {}),
                                         replay |-> call[w].replay]]
        BY <2>3 DEF ReadDays, streak
      <4>2. call'[w] = [at |-> "accrue", key |-> k,
                        bonus |-> old \cup (IF streak THEN {"streak"} ELSE {}),
                        replay |-> call[w].replay]
        BY <1>1, <4>1 DEF LedgerInv, TypeOK
      <4> QED
        BY <4>2 DEF streak
    <3>3. LoyalKept(k, bonus) /\ StreakKept(k, bonus)
      <4>1. Before(k) \subseteq History(k)
        BY DEF Before
      <4> QED
        BY <3>1, <3>2, <4>1 DEF LoyalKept, StreakKept, SpentOn
    <3>4. LoyalKept(k, bonus)' /\ StreakKept(k, bonus)'
      BY <1>1, <3>1, <3>3, BonusKept
    <3> QED
      BY <3>2, <3>4 DEF BonusReady, LoyalKept, StreakKept
  <2>4. ASSUME NEW p \in Player PROVE ~ReadBalance(w, p)
    BY <1>1 DEF ReadBalance, LedgerInv, TypeOK
  <2> QED
    BY <1>1, <2>1, <2>2, <2>3, <2>4, HeldFrom
<1>3. NoEarnedBonusLost'
  <2> SUFFICES ASSUME NEW i \in AccrualRows'
               PROVE  (LoyalKept(ledger[i].ref, ledger[i].bonus)
                         /\ StreakKept(ledger[i].ref, ledger[i].bonus))'
    BY DEF NoEarnedBonusLost, LoyalKept, StreakKept
  <2> PICK k, bonus : k = ledger'[i].ref /\ bonus = ledger'[i].bonus
    OBVIOUS
  <2>1. k \in Key /\ Recorded(k) /\ LoyalKept(k, bonus) /\ StreakKept(k, bonus)
    <3>1. CASE i \in AccrualRows /\ ledger'[i] = ledger[i]
      <4>1. k \in Key /\ Recorded(k)
        BY <1>1, <3>1 DEF LedgerInv, RowsExplained, AccrualExplained, AccrualRows
      <4>2. LoyalKept(k, bonus) /\ StreakKept(k, bonus)
        BY <3>1 DEF BonusInv, NoEarnedBonusLost, LoyalKept, StreakKept
      <4> QED
        BY <4>1, <4>2
    <3>2. ASSUME NEW w \in Worker, call[w].at = "accrue", call[w].key \in Key,
                 Recorded(call[w].key), k = call[w].key, bonus = call[w].bonus
          PROVE  k \in Key /\ Recorded(k) /\ LoyalKept(k, bonus) /\ StreakKept(k, bonus)
      BY <3>2 DEF BonusInv, BonusReady
    <3> QED
      BY <1>1, <3>1, <3>2, NewAccruals
  <2>2. LoyalKept(k, bonus)' /\ StreakKept(k, bonus)'
    BY <1>1, <2>1, BonusKept
  <2> QED
    BY <2>2 DEF LoyalKept, StreakKept
<1> QED
  BY <1>1, <1>2, <1>3 DEF BonusInv

LEMMA InitBonus == Init => BonusInv
<1> SUFFICES ASSUME Init PROVE BonusInv
  OBVIOUS
<1>1. \A w \in Worker : BonusReady(w)
  BY DEF Init, Idle, BonusReady
<1>2. NoEarnedBonusLost
  BY DEF Init, NoEarnedBonusLost, AccrualRows
<1> QED
  BY <1>1, <1>2, InitInv DEF BonusInv

(* NoEarnedBonusLost: an accrual that comes late, after a crash or by a    *)
(* slow handler, still has the loyal and the streak bonus that the history *)
(* before the purchase had earned.                                         *)
THEOREM EarnedBonusesStay == Spec => []NoEarnedBonusLost
<1>1. BonusInv => NoEarnedBonusLost
  BY DEF BonusInv
<1> QED
  BY InitBonus, StepBonus, <1>1, PTL DEF Spec

-----------------------------------------------------------------------------
(***************************************************************************)
(* The account that the ledger implements.                                 *)
(***************************************************************************)

(* A player's accruals, his purchases, and what each purchase was credited *)
(* with.                                                                   *)
EarnedRows(p) == {i \in AccrualRows : ledger[i].player = p}
BoughtBy(p) == {k \in Key : Owner[k] = p}
Credits == [k \in Key |-> CreditOf(k).amount]

(* The account's Earnings, summed over purchases, are the ledger's, summed *)
(* over rows.                                                              *)
EarnsWhatItsPurchases(p) ==
  SumFunctionOnSet(Amounts, EarnedRows(p)) = SumFunctionOnSet(Credits, BoughtBy(p))

(* The balance a handler is about to deduct was earned, by accruals that   *)
(* are on the ledger still.                                                *)
RequestBounded(w) ==
  call[w].at = "redeem" =>
    call[w].balance <= SumFunctionOnSet(Amounts, EarnedRows(call[w].player))

(* What the steps of the ledger need to be steps of the account.           *)
AccountInv ==
  /\ BalanceInv
  /\ \A r \in DOMAIN redeems : redeems[r].amount \in Nat
  /\ \A p \in Player : EarnsWhatItsPurchases(p)
  /\ \A w \in Worker : RequestBounded(w)

(* The row of a kind and a reference is the only one.                      *)
LEMMA RowOfIs ==
  ASSUME NEW l, NEW kind, NEW ref, NEW i \in DOMAIN l, l[i].kind = kind, l[i].ref = ref,
         \A j, m \in DOMAIN l : l[j].kind = l[m].kind /\ l[j].ref = l[m].ref => j = m
  PROVE  l[CHOOSE j \in DOMAIN l : l[j].kind = kind /\ l[j].ref = ref] = l[i]
OBVIOUS

(* What the accrual and the reversal rows say of a purchase afterwards.    *)
LEMMA CreditsAfterAppend ==
  ASSUME TypeOK, UniqueRows, UniqueRows', NEW e \in Row, ledger' = Append(ledger, e), NEW k
  PROVE  /\ e.kind \notin {"accrual", "reversal"} \/ e.ref # k => CreditOf(k)' = CreditOf(k)
         /\ e.kind = "accrual" /\ e.ref = k /\ ~HasRow("reversal", k) =>
              CreditOf(k)' = [state |-> "credited", amount |-> e.amount]
         /\ e.kind = "reversal" /\ e.ref = k /\ HasRow("accrual", k) =>
              CreditOf(k)' = [state |-> "reversed", amount |-> CreditOf(k).amount]
<1> PICK x : x = Len(ledger) + 1
  OBVIOUS
<1> PICK l : l = ledger'
  OBVIOUS
<1>1. /\ DOMAIN l = DOMAIN ledger \cup {x} /\ l[x] = e
      /\ \A i \in DOMAIN ledger : l[i] = ledger[i]
      /\ \A kind, ref : HasRow(kind, ref)'
           <=> HasRow(kind, ref) \/ (e.kind = kind /\ e.ref = ref)
  BY RowsAfterAppend
<1>2. \A j, m \in DOMAIN l : l[j].kind = l[m].kind /\ l[j].ref = l[m].ref => j = m
  BY DEF UniqueRows
<1>3. RowOf("accrual", k)'
        = l[CHOOSE j \in DOMAIN l : l[j].kind = "accrual" /\ l[j].ref = k]
  BY DEF RowOf
<1>4. ASSUME HasRow("accrual", k)
      PROVE  RowOf("accrual", k)' = RowOf("accrual", k)
  <2>1. PICK i \in DOMAIN ledger : ledger[i].kind = "accrual" /\ ledger[i].ref = k
    BY <1>4 DEF HasRow
  <2>2. RowOf("accrual", k) = ledger[i]
    <3> PICK old : old = ledger
      OBVIOUS
    <3>1. \A j, m \in DOMAIN old : old[j].kind = old[m].kind /\ old[j].ref = old[m].ref => j = m
      BY DEF UniqueRows
    <3>2. i \in DOMAIN old /\ old[i].kind = "accrual" /\ old[i].ref = k
      BY <2>1
    <3>3. old[CHOOSE j \in DOMAIN old : old[j].kind = "accrual" /\ old[j].ref = k] = old[i]
      BY <3>1, <3>2, RowOfIs
    <3> QED
      BY <3>3 DEF RowOf
  <2>3. i \in DOMAIN l /\ l[i].kind = "accrual" /\ l[i].ref = k /\ l[i] = ledger[i]
    BY <1>1, <2>1
  <2>4. RowOf("accrual", k)' = l[i]
    BY <1>2, <1>3, <2>3, RowOfIs
  <2> QED
    BY <2>2, <2>3, <2>4
<1>5. ASSUME e.kind = "accrual", e.ref = k
      PROVE  RowOf("accrual", k)' = e
  <2>1. x \in DOMAIN l /\ l[x].kind = "accrual" /\ l[x].ref = k /\ l[x] = e
    BY <1>1, <1>5
  <2>2. RowOf("accrual", k)' = l[x]
    BY <1>2, <1>3, <2>1, RowOfIs
  <2> QED
    BY <2>1, <2>2
<1>6. ASSUME e.kind \notin {"accrual", "reversal"} \/ e.ref # k
      PROVE  CreditOf(k)' = CreditOf(k)
  BY <1>1, <1>4, <1>6 DEF CreditOf
<1>7. ASSUME e.kind = "accrual", e.ref = k, ~HasRow("reversal", k)
      PROVE  CreditOf(k)' = [state |-> "credited", amount |-> e.amount]
  BY <1>1, <1>5, <1>7 DEF CreditOf
<1>8. ASSUME e.kind = "reversal", e.ref = k, HasRow("accrual", k)
      PROVE  CreditOf(k)' = [state |-> "reversed", amount |-> CreditOf(k).amount]
  BY <1>1, <1>4, <1>8 DEF CreditOf
<1> QED
  BY <1>6, <1>7, <1>8

(* A balance after an insert.                                              *)
LEMMA BalanceAfterAppend ==
  ASSUME TypeOK, NEW e \in Row, ledger' = Append(ledger, e), NEW p
  PROVE  /\ Balance(p) \in Int
         /\ Balance(p)' = IF e.player = p THEN Balance(p) + e.amount ELSE Balance(p)
<1> PICK M, x : M = RowsOf(p) /\ x = Len(ledger) + 1
  OBVIOUS
<1>1. RowsOf(p)' = IF e.player = p THEN M \cup {x} ELSE M
  BY SetsAfterAppend
<1>2. M \subseteq DOMAIN ledger
  BY DEF RowsOf
<1> PICK m : m = SumFunctionOnSet(Amounts, M)
  OBVIOUS
<1>3. /\ SumFunctionOnSet(Amounts', M) = m
      /\ SumFunctionOnSet(Amounts', M \cup {x}) = e.amount + m
  BY <1>2, SumsAfterAppend
<1>4. m \in Int /\ e.amount \in Int
  BY <1>2, RowSums DEF Row
<1>5. Balance(p) = m
  BY SumsNamed
<1>6. Balance(p)' = SumFunctionOnSet(Amounts', RowsOf(p)')
  BY DEF Balance, Amounts, RowsOf
<1> QED
  BY <1>1, <1>3, <1>4, <1>5, <1>6

(* Accruals are never negative, so what a player's rows earned only grows. *)
LEMMA AccrualsAreNat ==
  ASSUME LedgerInv, NEW i \in AccrualRows
  PROVE  Amounts[i] \in Nat
<1>1. i \in DOMAIN ledger /\ AccrualExplained(ledger[i])
  BY DEF LedgerInv, RowsExplained, AccrualRows
<1>2. Spend[ledger[i].ref] \in Nat
  BY <1>1, LedgerConstants DEF AccrualExplained
<1> QED
  BY <1>1, <1>2, AmountBounds DEF AccrualExplained, Amounts

(* An accrual adds its amount to what its player earned.                   *)
LEMMA EarnedAfterAppend ==
  ASSUME LedgerInv, NEW e \in Row, ledger' = Append(ledger, e), NEW p
  PROVE  /\ SumFunctionOnSet(Amounts, EarnedRows(p)) \in Nat
         /\ SumFunctionOnSet(Amounts', EarnedRows(p)')
              = IF e.kind = "accrual" /\ e.player = p
                  THEN SumFunctionOnSet(Amounts, EarnedRows(p)) + e.amount
                  ELSE SumFunctionOnSet(Amounts, EarnedRows(p))
<1> PICK E, x : E = EarnedRows(p) /\ x = Len(ledger) + 1
  OBVIOUS
<1>1. TypeOK /\ E \subseteq DOMAIN ledger
  BY DEF LedgerInv, EarnedRows, AccrualRows
<1>2. EarnedRows(p)' = IF e.kind = "accrual" /\ e.player = p THEN E \cup {x} ELSE E
  <2>1. /\ DOMAIN ledger' = DOMAIN ledger \cup {x} /\ ledger'[x] = e
        /\ \A i \in DOMAIN ledger : ledger'[i] = ledger[i]
    BY <1>1, RowsAfterAppend
  <2> QED
    BY <2>1 DEF EarnedRows, AccrualRows
<1> PICK m : m = SumFunctionOnSet(Amounts, E)
  OBVIOUS
<1>3. m \in Nat
  <2>1. IsFiniteSet(E)
    BY <1>1, RowSums
  <2>2. \A i \in E : Amounts[i] \in Nat
    BY AccrualsAreNat DEF EarnedRows
  <2> QED
    BY <2>1, <2>2, SumIsNat
<1>4. /\ SumFunctionOnSet(Amounts', E) = m
      /\ SumFunctionOnSet(Amounts', E \cup {x}) = e.amount + m
  BY <1>1, SumsAfterAppend
<1>5. e.amount \in Int /\ e.amount + m = m + e.amount
  BY <1>3 DEF Row
<1> QED
  BY <1>2, <1>3, <1>4, <1>5

(* No balance exceeds what was ever earned.                                *)
LEMMA BalanceWithinEarned ==
  ASSUME AccountInv, NEW p \in Player
  PROVE  Balance(p) <= SumFunctionOnSet(Amounts, EarnedRows(p))
<1> PICK E, U, C : E = EarnedRows(p) /\ U = Unreversed(p) /\ C = Open(p)
  OBVIOUS
<1>1. /\ LedgerInv /\ TypeOK /\ IsFiniteSet(DOMAIN redeems) /\ BalanceReconciles
      /\ \A r \in DOMAIN redeems : redeems[r].amount \in Nat
  BY DEF AccountInv, BalanceInv, LedgerInv
<1>2. U \subseteq E /\ E \subseteq DOMAIN ledger /\ C \subseteq DOMAIN redeems
  BY DEF EarnedRows, Unreversed, Open, AccrualRows
<1>3. IsFiniteSet(E) /\ IsFiniteSet(U) /\ \A i \in E : Amounts[i] \in Nat
  BY <1>1, <1>2, RowSums, AccrualsAreNat, FS_Subset DEF EarnedRows
<1>4. IsFiniteSet(C) /\ \A r \in C : Asks[r] \in Nat
  BY <1>1, <1>2, FS_Subset DEF Asks
<1> PICK m, u, c, b : /\ m = SumFunctionOnSet(Amounts, E) /\ u = SumFunctionOnSet(Amounts, U)
                      /\ c = SumFunctionOnSet(Asks, C) /\ b = Balance(p)
  OBVIOUS
<1> HIDE DEF Amounts, Asks
<1>5. m \in Nat /\ u \in Nat /\ u <= m
  BY <1>2, <1>3, SumIsNat, SumGrows
<1>6. c \in Nat
  BY <1>4, SumIsNat
<1>7. b = u - c
  BY <1>1, SumsNamed
<1>8. u - c <= m
  BY <1>5, <1>6
<1> QED
  BY <1>7, <1>8

(* A purchase credited anew adds its amount to what its player earned.     *)
LEMMA CreditsAfter ==
  ASSUME IsFiniteSet(Key), NEW g, NEW h, NEW k \in Key, NEW p, NEW amount \in Int,
         \A j \in Key : g[j] \in Int, g[k] = 0, h[k] = amount,
         \A j \in Key \ {k} : h[j] = g[j]
  PROVE  SumFunctionOnSet(h, BoughtBy(p))
           = IF Owner[k] = p THEN SumFunctionOnSet(g, BoughtBy(p)) + amount
                             ELSE SumFunctionOnSet(g, BoughtBy(p))
<1> PICK S : S = BoughtBy(p)
  OBVIOUS
<1>1. IsFiniteSet(S) /\ S \subseteq Key /\ (k \in S <=> Owner[k] = p)
  BY FS_Subset DEF BoughtBy
<1>2. \A j \in Key : h[j] \in Int
  OBVIOUS
<1>3. CASE k \notin S
  <2>1. \A j \in S : h[j] = g[j]
    BY <1>1, <1>3
  <2> QED
    BY <1>1, <1>3, <2>1, SumSame
<1>4. CASE k \in S
  <2> PICK R : R = S \ {k}
    OBVIOUS
  <2>1. IsFiniteSet(R) /\ R \subseteq Key /\ (\A j \in R : h[j] = g[j])
    BY <1>1, FS_Subset
  <2>2. SumFunctionOnSet(h, R) = SumFunctionOnSet(g, R)
    BY <2>1, SumSame
  <2>3. SumFunctionOnSet(g, R) \in Int
    BY <2>1, SumIsInt
  <2>4. SumFunctionOnSet(g, S) = 0 + SumFunctionOnSet(g, R)
    BY <1>1, <1>4, SumWithout
  <2>5. SumFunctionOnSet(h, S) = amount + SumFunctionOnSet(h, R)
    BY <1>1, <1>2, <1>4, SumWithout
  <2>6. SumFunctionOnSet(h, S) = SumFunctionOnSet(g, S) + amount
    BY <2>2, <2>3, <2>4, <2>5
  <2> QED
    BY <1>1, <1>4, <2>6
<1> QED
  BY <1>3, <1>4

LEMMA InitAccount ==
  ASSUME Init, IsFiniteSet(Key)
  PROVE  AccountInv
<1>1. BalanceInv
  BY InitBalance
<1>2. \A r \in DOMAIN redeems : redeems[r].amount \in Nat
  BY DEF Init
<1>3. ASSUME NEW p \in Player PROVE EarnsWhatItsPurchases(p)
  <2>1. EarnedRows(p) = {}
    BY DEF Init, EarnedRows, AccrualRows
  <2>2. \A k \in Key : Credits[k] = 0
    BY DEF Init, Credits, CreditOf, HasRow
  <2>3. IsFiniteSet(BoughtBy(p)) /\ BoughtBy(p) \subseteq Key
    BY FS_Subset DEF BoughtBy
  <2> HIDE DEF Credits, Amounts
  <2> QED
    BY <2>1, <2>2, <2>3, SumOfNone, SumOfZeros DEF EarnsWhatItsPurchases
<1>4. \A w \in Worker : RequestBounded(w)
  BY DEF Init, Idle, RequestBounded
<1> QED
  BY <1>1, <1>2, <1>3, <1>4 DEF AccountInv

(* Credits are numbers, and an accrual to come is worth nothing yet.       *)
LEMMA CreditTypes ==
  ASSUME TypeOK, NEW k \in Key
  PROVE  Credits[k] \in Int /\ (~HasRow("accrual", k) => Credits[k] = 0)
<1>1. HasRow("accrual", k) => RowOf("accrual", k).amount \in Int
  BY RowOfType DEF Row
<1> QED
  BY <1>1 DEF Credits, CreditOf

(* Rows other than accruals change nothing that was earned.                *)
LEMMA EarnedKept ==
  ASSUME LedgerInv, UniqueRows', NEW e \in Row, ledger' = Append(ledger, e),
         e.kind # "accrual", e.kind = "reversal" => HasRow("accrual", e.ref),
         NEW p \in Player, EarnsWhatItsPurchases(p)
  PROVE  EarnsWhatItsPurchases(p)'
<1>1. TypeOK /\ UniqueRows
  BY DEF LedgerInv
<1>2. SumFunctionOnSet(Amounts', EarnedRows(p)') = SumFunctionOnSet(Amounts, EarnedRows(p))
  BY EarnedAfterAppend
<1>3. ASSUME NEW k \in Key PROVE CreditOf(k)'.amount = CreditOf(k).amount
  BY <1>1, CreditsAfterAppend
<1>4. Credits' = Credits
  BY <1>3 DEF Credits
<1> QED
  BY <1>2, <1>4 DEF EarnsWhatItsPurchases, BoughtBy

(* A new accrual adds the same amount to both sides,                       *)
LEMMA EarnedCredited ==
  ASSUME IsFiniteSet(Key), LedgerInv, UniqueRows', NEW k \in Key, NEW bonus \in SUBSET Bonus,
         Credited(k, bonus), NEW p \in Player, EarnsWhatItsPurchases(p)
  PROVE  EarnsWhatItsPurchases(p)'
<1> PICK e : e = AccrualRow(k, bonus)
  OBVIOUS
<1>1. /\ e \in Row /\ ledger' = Append(ledger, e) /\ e.kind = "accrual" /\ e.player = Owner[k]
      /\ e.ref = k /\ e.amount \in Int
  BY EffectRows DEF LedgerInv, Credited, AccrualRow, Row
<1>2. TypeOK /\ UniqueRows /\ ~HasRow("accrual", k) /\ ~HasRow("reversal", k)
  BY NoReversalYet DEF LedgerInv, Credited
<1> PICK g : g = Credits
  OBVIOUS
<1> PICK h : h = Credits'
  OBVIOUS
<1>3. (\A j \in Key : g[j] \in Int) /\ g[k] = 0
  BY <1>2, CreditTypes
<1>4. h[k] = e.amount
  <2>1. CreditOf(k)' = [state |-> "credited", amount |-> e.amount]
    BY <1>1, <1>2, CreditsAfterAppend
  <2> QED
    BY <2>1 DEF Credits
<1>5. \A j \in Key \ {k} : h[j] = g[j]
  <2>1. \A j \in Key \ {k} : CreditOf(j)' = CreditOf(j)
    BY <1>1, <1>2, CreditsAfterAppend
  <2> QED
    BY <2>1 DEF Credits
<1>6. SumFunctionOnSet(h, BoughtBy(p))
        = IF Owner[k] = p THEN SumFunctionOnSet(g, BoughtBy(p)) + e.amount
                          ELSE SumFunctionOnSet(g, BoughtBy(p))
  <2> HIDE DEF Credits
  <2> QED
    BY <1>1, <1>3, <1>4, <1>5, CreditsAfter
<1>7. SumFunctionOnSet(Amounts', EarnedRows(p)')
        = IF Owner[k] = p THEN SumFunctionOnSet(Amounts, EarnedRows(p)) + e.amount
                          ELSE SumFunctionOnSet(Amounts, EarnedRows(p))
  BY <1>1, EarnedAfterAppend
<1> QED
  BY <1>6, <1>7 DEF EarnsWhatItsPurchases, BoughtBy

(* and no step takes them apart.                                           *)
LEMMA EarnedStep ==
  ASSUME IsFiniteSet(Key), LedgerInv, LedgerInv', Effect,
         NEW p \in Player, EarnsWhatItsPurchases(p)
  PROVE  EarnsWhatItsPurchases(p)'
<1>1. TypeOK /\ UniqueRows'
  BY DEF LedgerInv
<1>2. CASE UNCHANGED ledger
  <2>1. /\ Amounts' = Amounts /\ EarnedRows(p)' = EarnedRows(p)
        /\ \A k \in Key : CreditOf(k)' = CreditOf(k)
    BY <1>2 DEF Amounts, EarnedRows, AccrualRows, CreditOf, HasRow, RowOf
  <2>2. Credits' = Credits
    BY <2>1 DEF Credits
  <2> QED
    BY <2>1, <2>2 DEF EarnsWhatItsPurchases, BoughtBy
<1>3. ASSUME NEW k \in Key, TakenBack(k)
      PROVE  EarnsWhatItsPurchases(p)'
  <2>1. /\ ReversalRow(k) \in Row /\ ledger' = Append(ledger, ReversalRow(k))
        /\ ReversalRow(k).kind = "reversal" /\ ReversalRow(k).ref = k /\ HasRow("accrual", k)
    BY <1>1, <1>3, EffectRows DEF TakenBack, ReversalRow
  <2> QED
    BY <1>1, <2>1, EarnedKept
<1>4. ASSUME NEW r \in Request, NEW q \in Player, NEW amount \in Int, Asked(r, q, amount)
      PROVE  EarnsWhatItsPurchases(p)'
  <2> DEFINE e == [kind |-> "redeem", player |-> q, ref |-> r, bonus |-> {}, amount |-> -amount]
  <2>1. e \in Row /\ ledger' = Append(ledger, e) /\ e.kind = "redeem"
    BY <1>1, <1>4, EffectRows DEF Asked, InsertRedeem
  <2> HIDE DEF e
  <2> QED
    BY <1>1, <2>1, EarnedKept
<1>5. ASSUME NEW r \in Request, NEW status \in {"completed", "rejected"}, Settled(r, status)
      PROVE  EarnsWhatItsPurchases(p)'
  <2>1. \/ UNCHANGED ledger
        \/ /\ ReturnRow(r) \in Row /\ ledger' = Append(ledger, ReturnRow(r))
           /\ ReturnRow(r).kind = "redeem_return"
    BY <1>1, <1>5, EffectRows DEF Settled, ReturnRow
  <2> QED
    BY <1>1, <1>2, <2>1, EarnedKept
<1> QED
  BY <1>1, <1>2, <1>3, <1>4, <1>5, EarnedCredited DEF Effect, Stored

(* What a player's rows earned never shrinks.                              *)
LEMMA EarnedGrows ==
  ASSUME LedgerInv, Effect, NEW p
  PROVE  /\ SumFunctionOnSet(Amounts, EarnedRows(p)) \in Int
         /\ SumFunctionOnSet(Amounts', EarnedRows(p)') \in Int
         /\ SumFunctionOnSet(Amounts, EarnedRows(p)) <= SumFunctionOnSet(Amounts', EarnedRows(p)')
<1> PICK m, n : /\ m = SumFunctionOnSet(Amounts, EarnedRows(p))
                /\ n = SumFunctionOnSet(Amounts', EarnedRows(p)')
  OBVIOUS
<1> DEFINE Grown == m \in Int /\ n \in Int /\ m <= n
<1> SUFFICES Grown
  OBVIOUS
<1>1. CASE UNCHANGED ledger
  <2>1. EarnedRows(p)' = EarnedRows(p) /\ Amounts' = Amounts
    BY <1>1 DEF EarnedRows, AccrualRows, Amounts
  <2>2. n = m /\ m \in Int
    BY <2>1, RowSums DEF EarnedRows, AccrualRows, LedgerInv
  <2> QED
    BY <2>2
<1>2. ASSUME NEW e \in Row, ledger' = Append(ledger, e), e.kind = "accrual" => e.amount \in Nat
      PROVE  Grown
  <2>1. m \in Nat /\ n = IF e.kind = "accrual" /\ e.player = p THEN m + e.amount ELSE m
    BY <1>2, EarnedAfterAppend
  <2> QED
    BY <1>2, <2>1
<1>3. ASSUME NEW k \in Key, NEW bonus \in SUBSET Bonus, Credited(k, bonus)
      PROVE  Grown
  <2> PICK e : e = AccrualRow(k, bonus)
    OBVIOUS
  <2>1. e \in Row /\ ledger' = Append(ledger, e) /\ e.amount = CashbackAmount(Spend[k], bonus)
    BY <1>3, EffectRows DEF LedgerInv, Credited, AccrualRow
  <2>2. e.amount \in Nat
    BY <2>1, AmountBounds, LedgerConstants
  <2> QED
    BY <1>2, <2>1, <2>2
<1>4. ASSUME NEW k \in Key, TakenBack(k)
      PROVE  Grown
  <2>1. /\ ReversalRow(k) \in Row /\ ledger' = Append(ledger, ReversalRow(k))
        /\ ReversalRow(k).kind = "reversal"
    BY <1>4, EffectRows DEF LedgerInv, TakenBack, ReversalRow
  <2> QED
    BY <1>2, <2>1
<1>5. ASSUME NEW r \in Request, NEW q \in Player, NEW amount \in Int, Asked(r, q, amount)
      PROVE  Grown
  <2> DEFINE e == [kind |-> "redeem", player |-> q, ref |-> r, bonus |-> {}, amount |-> -amount]
  <2>1. e \in Row /\ ledger' = Append(ledger, e) /\ e.kind = "redeem"
    BY <1>5, EffectRows DEF LedgerInv, Asked, InsertRedeem
  <2> HIDE DEF e
  <2> QED
    BY <1>2, <2>1
<1>6. ASSUME NEW r \in Request, NEW status \in {"completed", "rejected"}, Settled(r, status)
      PROVE  Grown
  <2>1. \/ UNCHANGED ledger
        \/ /\ ReturnRow(r) \in Row /\ ledger' = Append(ledger, ReturnRow(r))
           /\ ReturnRow(r).kind = "redeem_return"
    BY <1>6, EffectRows DEF LedgerInv, Settled, ReturnRow
  <2> QED
    BY <1>1, <1>2, <2>1
<1> QED
  BY <1>1, <1>3, <1>4, <1>5, <1>6 DEF Effect, Stored

(* Every step keeps what the account needs.                                *)
LEMMA StepAccount ==
  ASSUME IsFiniteSet(Key), AccountInv, [Next]_vars
  PROVE  AccountInv'
<1>1. LedgerInv /\ LedgerInv' /\ Effect /\ BalanceInv'
  BY StepBalance, StepEffect DEF AccountInv, BalanceInv
<1>2. \A r \in DOMAIN redeems' : redeems'[r].amount \in Nat
  <2>1. \A r \in DOMAIN redeems : redeems[r].amount \in Nat
    BY DEF AccountInv
  <2>2. ASSUME NEW r \in Request, NEW p \in Player, NEW amount \in Int, Asked(r, p, amount)
        PROVE  \A s \in DOMAIN redeems' : redeems'[s].amount \in Nat
    <3>1. PICK w \in Worker : call[w].at = "redeem" /\ call[w].balance = amount
      BY <2>2 DEF Asked
    <3>2. amount \in MinRedeem .. MaxInteger
      BY <1>1, <3>1, CallShape DEF LedgerInv, RedeemCall
    <3>3. amount \in Nat
      BY <3>2 DEF MinRedeem
    <3>4. \A s \in DOMAIN redeems' : s \in DOMAIN redeems \/ s = r
      BY <2>2 DEF Asked, InsertRedeem
    <3> QED
      BY <2>2, <2>1, <3>3, <3>4 DEF Asked, InsertRedeem
  <2>3. ASSUME NEW r \in Request, NEW status \in {"completed", "rejected"}, Settled(r, status)
        PROVE  \A s \in DOMAIN redeems' : redeems'[s].amount \in Nat
    BY <1>1, <2>1, <2>3 DEF Settled, SetStatus, LedgerInv, TypeOK
  <2>4. UNCHANGED redeems => \A s \in DOMAIN redeems' : redeems'[s].amount \in Nat
    BY <2>1
  <2> QED
    BY <1>1, <2>2, <2>3, <2>4 DEF Effect, Stored, Credited, TakenBack
<1>3. \A p \in Player : EarnsWhatItsPurchases(p)'
  BY <1>1, EarnedStep DEF AccountInv
<1>4. ASSUME NEW w \in Worker PROVE RequestBounded(w)'
  <2> SUFFICES ASSUME call'[w].at = "redeem" PROVE RequestBounded(w)'
    BY DEF RequestBounded
  <2> PICK p, b : p = call'[w].player /\ b = call'[w].balance
    OBVIOUS
  <2> PICK m, n : /\ m = SumFunctionOnSet(Amounts, EarnedRows(p))
                  /\ n = SumFunctionOnSet(Amounts', EarnedRows(p)')
    OBVIOUS
  <2>1. b \in Int /\ m \in Int /\ n \in Int /\ m <= n
    <3>1. b \in Int
      <4>1. call'[w] \in RedeemCall
        <5>1. call'[w] \in Call
          BY <1>1 DEF LedgerInv, TypeOK
        <5> QED
          BY <5>1 DEF Call, Idle, InsertCall, AccrueCall, ReplyCall, ReverseCall, RedeemCall
      <4>2. b \in MinRedeem .. MaxInteger
        BY <4>1 DEF RedeemCall
      <4> QED
        BY <4>2
    <3> QED
      BY <1>1, <3>1, EarnedGrows
  <2>2. b <= m
    <3>1. CASE call'[w] = call[w]
      BY <3>1 DEF AccountInv, RequestBounded
    <3>2. ASSUME NEW q \in Player, ReadBalance(w, q)
          PROVE  b <= m
      <4>1. call'[w] = [at |-> "redeem", player |-> q, balance |-> Balance(q)]
        BY <1>1, <3>2 DEF ReadBalance, LedgerInv, TypeOK
      <4> QED
        BY <4>1, BalanceWithinEarned
    <3>3. ~ReadTotals(w) /\ ~ReadDays(w)
      BY <1>1 DEF ReadTotals, ReadDays, LedgerInv, TypeOK
    <3> QED
      BY <1>1, <3>1, <3>2, <3>3, HeldFrom
  <2>3. b <= n
    BY <2>1, <2>2
  <2> QED
    BY <2>3 DEF RequestBounded
<1> QED
  BY <1>1, <1>2, <1>3, <1>4 DEF AccountInv

(* The account as the ledger shows it.                                     *)
ShownBalance == [p \in Player |-> Balance(p)]
ShownCredit == [k \in Key |-> CreditOf(k)]
ShownPayout == [r \in Request |-> PayoutOf(r)]

(* The account module's own copies of the rate and the sums are the same.  *)
LEMMA SameRates ==
  /\ \A spend, active : Account!CashbackAmount(spend, active) = CashbackAmount(spend, active)
  /\ Account!Bonus = Bonus
  /\ Account!MinRedeem = MinRedeem
BY DEF Account!CashbackAmount, CashbackAmount, Account!Percent, Percent,
       Account!UncappedPercent, UncappedPercent, Account!BonusPercent, BonusPercent,
       Account!BaseRatePercent, BaseRatePercent, Account!MaxRatePercent, MaxRatePercent,
       Account!EventBonusPercent, EventBonusPercent, Account!StreakBonusPercent,
       StreakBonusPercent, Account!FirstBonusPercent, FirstBonusPercent,
       Account!LoyalBonusPercent, LoyalBonusPercent, Account!Bonus, Bonus,
       Account!MinRedeem, MinRedeem

LEMMA SameSums ==
  ASSUME NEW f, NEW S
  PROVE  Account!SumFunctionOnSet(f, S) = SumFunctionOnSet(f, S)
BY DEF Account!SumFunctionOnSet, SumFunctionOnSet, Account!FoldFunctionOnSet, FoldFunctionOnSet,
       Account!MapThenFoldSet, MapThenFoldSet

(* What a player's purchases earned is what his accruals amount to.        *)
LEMMA EarningsAre ==
  ASSUME AccountInv, NEW p \in Player
  PROVE  Account!Earnings(p) = SumFunctionOnSet(Amounts, EarnedRows(p))
<1>1. [k \in Key |-> ShownCredit[k].amount] = Credits
  BY DEF ShownCredit, Credits
<1>2. Account!Earnings(p) = SumFunctionOnSet(Credits, BoughtBy(p))
  BY <1>1, SameSums DEF Account!Earnings, ShownCredit, BoughtBy
<1> QED
  BY <1>2 DEF AccountInv, EarnsWhatItsPurchases

(* The empty tables show an empty account.                                 *)
LEMMA InitImplements == Init => Account!Init
<1> SUFFICES ASSUME Init PROVE Account!Init
  OBVIOUS
<1>1. ASSUME NEW p \in Player PROVE Balance(p) = 0
  <2>1. RowsOf(p) = {}
    BY DEF Init, RowsOf
  <2> QED
    BY <2>1, SumsNamed, SumOfNone
<1>2. ASSUME NEW k \in Key PROVE CreditOf(k) = [state |-> "none", amount |-> 0]
  BY DEF Init, CreditOf, HasRow
<1>3. ASSUME NEW r \in Request PROVE PayoutOf(r) = [status |-> "none"]
  BY DEF Init, PayoutOf
<1> QED
  BY <1>1, <1>2, <1>3 DEF Account!Init, Account!NoCredit, Account!NoPayout

(* A row moves its player's balance by its amount.                         *)
LEMMA ShownBalanceStep ==
  ASSUME TypeOK, NEW e \in Row, ledger' = Append(ledger, e)
  PROVE  ShownBalance' = [ShownBalance EXCEPT ![e.player] = ShownBalance[e.player] + e.amount]
<1>1. e.player \in Player
  BY DEF Row
<1>2. \A p \in Player : Balance(p)' = IF e.player = p THEN Balance(p) + e.amount ELSE Balance(p)
  BY BalanceAfterAppend
<1>3. ShownBalance' = [p \in Player |-> Balance(p)']
  BY DEF ShownBalance
<1> QED
  BY <1>1, <1>2, <1>3 DEF ShownBalance

(* An accrual is a Credit,                                                 *)
LEMMA CreditedImplements ==
  ASSUME AccountInv, UniqueRows', NEW k \in Key, NEW bonus \in SUBSET Bonus, Credited(k, bonus)
  PROVE  Account!Credit(k, bonus)
<1> PICK e : e = AccrualRow(k, bonus)
  OBVIOUS
<1>1. TypeOK /\ UniqueRows /\ RowsExplained /\ LedgerInv
  BY DEF AccountInv, BalanceInv, LedgerInv
<1>2. /\ e \in Row /\ ledger' = Append(ledger, e) /\ e.kind = "accrual" /\ e.ref = k
      /\ e.player = Owner[k] /\ e.amount = CashbackAmount(Spend[k], bonus)
  BY <1>1, EffectRows DEF Credited, AccrualRow
<1>3. ~HasRow("accrual", k) /\ ~HasRow("reversal", k) /\ Spend[k] > 0 /\ UNCHANGED redeems
  BY <1>1, NoReversalYet DEF Credited
<1>4. ShownCredit[k] = [state |-> "none", amount |-> 0]
  BY <1>3 DEF ShownCredit, CreditOf
<1>5. ShownCredit' = [ShownCredit EXCEPT ![k] = [state |-> "credited", amount |-> e.amount]]
  <2>1. \A j \in Key : CreditOf(j)' = IF j = k THEN [state |-> "credited", amount |-> e.amount]
                                               ELSE CreditOf(j)
    BY <1>1, <1>2, <1>3, CreditsAfterAppend
  <2>2. ShownCredit' = [j \in Key |-> CreditOf(j)']
    BY DEF ShownCredit
  <2> QED
    BY <2>1, <2>2 DEF ShownCredit
<1>6. ShownBalance' = [ShownBalance EXCEPT ![Owner[k]] = ShownBalance[Owner[k]] + e.amount]
  BY <1>1, <1>2, ShownBalanceStep
<1>7. ShownPayout' = ShownPayout
  BY <1>3 DEF ShownPayout, PayoutOf
<1>8. Account!CashbackAmount(Spend[k], bonus) = e.amount
  BY <1>2, SameRates
<1> QED
  BY <1>3, <1>4, <1>5, <1>6, <1>7, <1>8
     DEF Account!Credit, Account!MayEarn, Account!NoCredit, ShownCredit, ShownBalance, ShownPayout

(* a reversal a TakeBack,                                                  *)
LEMMA TakenBackImplements ==
  ASSUME AccountInv, UniqueRows', NEW k \in Key, TakenBack(k)
  PROVE  Account!TakeBack(k)
<1> PICK e, a : e = ReversalRow(k) /\ a = RowOf("accrual", k).amount
  OBVIOUS
<1>1. TypeOK /\ UniqueRows
  BY DEF AccountInv, BalanceInv, LedgerInv
<1>2. /\ e \in Row /\ ledger' = Append(ledger, e) /\ e.kind = "reversal" /\ e.ref = k
      /\ e.player = Owner[k] /\ e.amount = -a
  BY <1>1, EffectRows DEF TakenBack, ReversalRow
<1>3. HasRow("accrual", k) /\ ~HasRow("reversal", k) /\ UNCHANGED redeems
  BY DEF TakenBack
<1>4. ShownCredit[k] = [state |-> "credited", amount |-> a]
  BY <1>3 DEF ShownCredit, CreditOf
<1>5. ShownCredit' = [ShownCredit EXCEPT ![k] = [state |-> "reversed", amount |-> a]]
  <2>1. CreditOf(k).amount = a
    BY <1>3 DEF CreditOf
  <2>2. \A j \in Key : CreditOf(j)' = IF j = k THEN [state |-> "reversed", amount |-> a]
                                               ELSE CreditOf(j)
    BY <1>1, <1>2, <1>3, <2>1, CreditsAfterAppend
  <2>3. ShownCredit' = [j \in Key |-> CreditOf(j)']
    BY DEF ShownCredit
  <2> QED
    BY <2>2, <2>3 DEF ShownCredit
<1>6. ShownBalance' = [ShownBalance EXCEPT ![Owner[k]] = ShownBalance[Owner[k]] - a]
  <2>1. a \in Int /\ ShownBalance[Owner[k]] \in Int
    <3>1. Owner[k] \in Player /\ a \in Int
      BY <1>1, <1>3, RowOfType, LedgerConstants DEF Row
    <3>2. Balance(Owner[k]) \in Int
      BY <1>1, <1>2, BalanceAfterAppend
    <3> QED
      BY <3>1, <3>2 DEF ShownBalance
  <2>2. ShownBalance[Owner[k]] + (-a) = ShownBalance[Owner[k]] - a
    BY <2>1
  <2> QED
    BY <1>1, <1>2, <2>2, ShownBalanceStep
<1>7. ShownPayout' = ShownPayout
  BY <1>3 DEF ShownPayout, PayoutOf
<1>8. ShownCredit' = [ShownCredit EXCEPT ![k].state = "reversed"]
  <2>1. [ShownCredit[k] EXCEPT !.state = "reversed"] = [state |-> "reversed", amount |-> a]
    BY <1>4
  <2> QED
    BY <1>5, <2>1
<1>9. /\ ShownCredit[k].state = "credited"
      /\ ShownBalance' = [ShownBalance EXCEPT ![Owner[k]] =
                            ShownBalance[Owner[k]] - ShownCredit[k].amount]
  BY <1>4, <1>6
<1> QED
  BY <1>7, <1>8, <1>9 DEF Account!TakeBack, ShownCredit, ShownBalance, ShownPayout

(* The request rows leave the credits alone.                               *)
LEMMA CreditsStay ==
  ASSUME TypeOK, UniqueRows, UniqueRows', NEW e \in Row, ledger' = Append(ledger, e),
         e.kind \notin {"accrual", "reversal"}
  PROVE  ShownCredit' = ShownCredit
<1>1. \A k \in Key : CreditOf(k)' = CreditOf(k)
  BY CreditsAfterAppend
<1> QED
  BY <1>1 DEF ShownCredit

(* a redeem request an Ask of an amount that was earned,                   *)
LEMMA AskedImplements ==
  ASSUME AccountInv, UniqueRows', NEW r \in Request, NEW p \in Player, NEW amount \in Int,
         Asked(r, p, amount)
  PROVE  amount \in Account!MinRedeem .. Account!Earnings(p) /\ Account!Ask(r, p, amount)
<1> PICK e : e = [kind |-> "redeem", player |-> p, ref |-> r, bonus |-> {}, amount |-> -amount]
  OBVIOUS
<1>1. TypeOK /\ UniqueRows
  BY DEF AccountInv, BalanceInv, LedgerInv
<1>2. /\ e \in Row /\ ledger' = Append(ledger, e) /\ e.kind = "redeem" /\ e.player = p
      /\ e.amount = -amount
  BY <1>1, EffectRows DEF Asked, InsertRedeem
<1>3. /\ r \notin DOMAIN redeems
      /\ redeems' = [s \in DOMAIN redeems \cup {r} |->
                       IF s = r THEN [player |-> p, amount |-> amount, status |-> "pending"]
                                ELSE redeems[s]]
  BY DEF Asked, InsertRedeem
<1>4. amount \in Account!MinRedeem .. Account!Earnings(p)
  <2>1. PICK w \in Worker :
          call[w].at = "redeem" /\ call[w].player = p /\ call[w].balance = amount
    BY DEF Asked
  <2>2. amount \in MinRedeem .. MaxInteger
    BY <1>1, <2>1, CallShape DEF RedeemCall
  <2>3. amount <= SumFunctionOnSet(Amounts, EarnedRows(p))
    BY <2>1 DEF AccountInv, RequestBounded
  <2>4. SumFunctionOnSet(Amounts, EarnedRows(p)) \in Int
    BY <1>1, RowSums DEF EarnedRows, AccrualRows
  <2>5. Account!Earnings(p) = SumFunctionOnSet(Amounts, EarnedRows(p))
    BY EarningsAre
  <2> PICK n : n = SumFunctionOnSet(Amounts, EarnedRows(p))
    OBVIOUS
  <2>6. amount \in MinRedeem .. n
    BY <2>2, <2>3, <2>4 DEF MinRedeem
  <2> QED
    BY <2>5, <2>6, SameRates
<1>5. ShownPayout[r] = [status |-> "none"]
  BY <1>3 DEF ShownPayout, PayoutOf
<1>6. \A q \in Request : ShownPayout[q].status = "pending" => ShownPayout[q].player # p
  BY DEF ShownPayout, PayoutOf, Asked, HasPending
<1>7. ShownPayout' = [ShownPayout EXCEPT ![r] =
                        [status |-> "pending", player |-> p, amount |-> amount]]
  <2>1. \A q \in Request : PayoutOf(q)' = IF q = r
          THEN [status |-> "pending", player |-> p, amount |-> amount] ELSE PayoutOf(q)
    BY <1>3 DEF PayoutOf
  <2>2. ShownPayout' = [q \in Request |-> PayoutOf(q)']
    BY DEF ShownPayout
  <2> QED
    BY <2>1, <2>2 DEF ShownPayout
<1>8. ShownBalance' = [ShownBalance EXCEPT ![p] = ShownBalance[p] - amount]
  <2>1. ShownBalance[p] \in Int
    BY <1>1, <1>2, BalanceAfterAppend DEF ShownBalance
  <2>2. ShownBalance[p] + (-amount) = ShownBalance[p] - amount
    BY <2>1
  <2> QED
    BY <1>1, <1>2, <2>2, ShownBalanceStep
<1>9. ShownCredit' = ShownCredit
  BY <1>1, <1>2, CreditsStay
<1> QED
  BY <1>4, <1>5, <1>6, <1>7, <1>8, <1>9
     DEF Account!Ask, Account!MayAsk, Account!NoPayout, ShownCredit, ShownBalance, ShownPayout

(* and a resolution a Pay or a Refuse.                                     *)
LEMMA SettledImplements ==
  ASSUME AccountInv, UniqueRows', NEW r \in Request, NEW status \in {"completed", "rejected"},
         Settled(r, status)
  PROVE  Account!Pay(r) \/ Account!Refuse(r)
<1>1. /\ TypeOK /\ UniqueRows /\ r \in DOMAIN redeems /\ redeems[r].status = "pending"
      /\ redeems[r] \in RedeemRow
      /\ redeems' = [redeems EXCEPT ![r] = [player |-> redeems[r].player,
                                            amount |-> redeems[r].amount, status |-> status]]
  BY DEF AccountInv, BalanceInv, LedgerInv, TypeOK, Settled, SetStatus
<1> PICK p, a : p = redeems[r].player /\ a = redeems[r].amount
  OBVIOUS
<1>2. ShownPayout[r] = [status |-> "pending", player |-> p, amount |-> a]
  BY <1>1 DEF ShownPayout, PayoutOf
<1>3. ShownPayout' = [ShownPayout EXCEPT ![r] = [status |-> status, player |-> p, amount |-> a]]
  <2>1. \A q \in Request : PayoutOf(q)' =
          IF q = r THEN [status |-> status, player |-> p, amount |-> a] ELSE PayoutOf(q)
    BY <1>1 DEF PayoutOf
  <2>2. ShownPayout' = [q \in Request |-> PayoutOf(q)']
    BY DEF ShownPayout
  <2> QED
    BY <2>1, <2>2 DEF ShownPayout
<1>4. ShownPayout' = [ShownPayout EXCEPT ![r].status = status]
  <2>1. [ShownPayout[r] EXCEPT !.status = status] = [status |-> status, player |-> p, amount |-> a]
    BY <1>2
  <2> QED
    BY <1>3, <2>1
<1>5. CASE status = "completed"
  <2>1. UNCHANGED ledger
    BY <1>5 DEF Settled
  <2>2. ShownBalance' = ShownBalance /\ ShownCredit' = ShownCredit
    BY <2>1 DEF ShownBalance, Balance, ShownCredit, CreditOf, HasRow, RowOf
  <2>3. Account!Pay(r)
    BY <1>2, <1>4, <1>5, <2>2 DEF Account!Pay, ShownCredit, ShownBalance, ShownPayout
  <2> QED
    BY <2>3
<1>6. CASE status = "rejected"
  <2> PICK e : e = ReturnRow(r)
    OBVIOUS
  <2>1. /\ e \in Row /\ ledger' = Append(ledger, e) /\ e.kind = "redeem_return"
        /\ e.player = p /\ e.amount = a
    BY <1>1, <1>6, EffectRows DEF Settled, ReturnRow
  <2>2. ShownBalance' = [ShownBalance EXCEPT ![p] = ShownBalance[p] + a]
    BY <1>1, <2>1, ShownBalanceStep
  <2>3. ShownCredit' = ShownCredit
    BY <1>1, <2>1, CreditsStay
  <2>4. /\ ShownPayout[r].status = "pending"
        /\ ShownBalance' = [ShownBalance EXCEPT ![ShownPayout[r].player] =
                              ShownBalance[ShownPayout[r].player] + ShownPayout[r].amount]
    BY <1>2, <2>2
  <2>5. Account!Refuse(r)
    BY <1>4, <1>6, <2>3, <2>4 DEF Account!Refuse, ShownCredit, ShownBalance, ShownPayout
  <2> QED
    BY <2>5
<1> QED
  BY <1>5, <1>6

(* Every step of a handler is a step of the account, or none.              *)
LEMMA StepImplements ==
  ASSUME AccountInv, AccountInv', [Next]_vars
  PROVE  UNCHANGED <<ledger, redeems>> \/ Account!Next
<1>1. Effect /\ UniqueRows'
  BY StepEffect DEF AccountInv, BalanceInv, LedgerInv
<1>2. ASSUME NEW k \in Key, NEW bonus \in SUBSET Bonus, Credited(k, bonus)
      PROVE  Account!Next
  <2>1. Account!Credit(k, bonus)
    BY <1>1, <1>2, CreditedImplements
  <2>2. Account!MayEarn(k) /\ bonus \in SUBSET Account!Bonus
    BY <2>1, SameRates DEF Account!Credit
  <2> QED
    BY <2>1, <2>2 DEF Account!Next
<1>3. ASSUME NEW k \in Key, TakenBack(k)
      PROVE  Account!Next
  BY <1>1, <1>3, TakenBackImplements DEF Account!Next
<1>4. ASSUME NEW r \in Request, NEW p \in Player, NEW amount \in Int, Asked(r, p, amount)
      PROVE  Account!Next
  <2>1. amount \in Account!MinRedeem .. Account!Earnings(p) /\ Account!Ask(r, p, amount)
    BY <1>1, <1>4, AskedImplements
  <2>2. Account!MayAsk(r, p)
    BY <2>1 DEF Account!Ask
  <2> QED
    BY <2>1, <2>2 DEF Account!Next
<1>5. ASSUME NEW r \in Request, NEW status \in {"completed", "rejected"}, Settled(r, status)
      PROVE  Account!Next
  BY <1>1, <1>5, SettledImplements DEF Account!Next
<1> QED
  BY <1>1, <1>2, <1>3, <1>4, <1>5 DEF Effect, Stored

(* A step that writes no row moves nothing in the account either.          *)
LEMMA AccountStutters ==
  ASSUME UNCHANGED <<ledger, redeems>>
  PROVE  UNCHANGED Account!vars
BY DEF Account!vars, Balance, CreditOf, HasRow, RowOf, PayoutOf

(* ImplementsAccount: however handlers interleave and fail, the ledger     *)
(* behaves like one account per player, whose specification it implements. *)
THEOREM ImplementsTheAccount ==
  ASSUME IsFiniteSet(Key)
  PROVE  Spec => ImplementsAccount /\ Account!Spec
<1>1. Init => AccountInv
  BY InitAccount
<1>2. AccountInv /\ [Next]_vars => AccountInv'
  BY StepAccount
<1>3. AccountInv /\ AccountInv' /\ [Next]_vars
        => UNCHANGED <<ledger, redeems>> \/ Account!Next
  BY StepImplements
<1>4. UNCHANGED <<ledger, redeems>> \/ Account!Next => [Account!Next]_(Account!vars)
  BY AccountStutters
<1> QED
  BY <1>1, <1>2, <1>3, <1>4, InitImplements, PTL DEF Spec, ImplementsAccount, Account!Spec

=============================================================================
