------------------------------- MODULE Keyset -------------------------------
(***************************************************************************)
(* Keyset pages.  A list shows rows by a key that falls, an id that rises  *)
(* breaking ties; a page begins after the row its cursor names, wherever   *)
(* that row is by now.  The key is a time, or a counter for the popular    *)
(* sorts.  A row is [id, key]; "no cursor" is the empty set, so that one   *)
(* condition serves the first page and the others.                         *)
(***************************************************************************)
EXTENDS Integers, FiniteSets, SequencesExt

\* Mutant: the row of the cursor counts as one after it.
AfterOrAt(c, r) == IF r.key = c.key THEN r.id >= c.id ELSE r.key < c.key

(* KeysetCursor.After, for times, and CountCursor.After, for counters.     *)
After(c, r) == IF r.key = c.key THEN r.id > c.id ELSE r.key < c.key

CountAfter(c, r) == IF r.key = c.key THEN r.id > c.id ELSE r.key < c.key

(* The order of ORDER BY and of sortByRecency.                             *)
Before(q, r) == q.key > r.key \/ (q.key = r.key /\ q.id < r.id)

(* How many rows of S come before a row, and S in this order.              *)
Rank(S, r) == Cardinality({q \in S : Before(q, r)})

InOrder(S) == [n \in 1 .. Cardinality(S) |-> CHOOSE r \in S : Rank(S, r) = n - 1]

\* Mutant: a client gets pages of any length.
NoLargest(asked, fallback, largest) == IF asked <= 0 THEN fallback ELSE asked

ClampLimit(asked, fallback, largest) ==
  CASE asked <= 0      -> fallback
    [] asked > largest -> largest
    [] OTHER           -> asked

(* The maps: rows after the cursor are sorted and cut off.                 *)
Truncate(sorted, limit) ==
  [rows |-> SubSeq(sorted, 1, IF Len(sorted) > limit THEN limit ELSE Len(sorted)),
   more |-> Len(sorted) > limit]

MemPage(following, limit) == Truncate(InOrder(following), limit)

(* The tables: the query is limited to one row more than the page, and the *)
(* row too many says that there is more.                                   *)
TrimPage(fetched, limit) ==
  [rows |-> InOrder({r \in fetched : Rank(fetched, r) < limit}),
   more |-> Cardinality(fetched) > limit]

SqlPage(rows, cursor, limit) ==
  LET left == {r \in rows : \A c \in cursor :
                              r.key < c.key \/ (r.key = c.key /\ r.id > c.id)}
      fetched == {r \in left : Rank(left, r) < limit + 1}
  IN TrimPage(fetched, limit)
=============================================================================
