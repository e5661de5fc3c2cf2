---------------------------- MODULE RequestProofs ----------------------------
(***************************************************************************)
(* Theorems about GameRequests, for any calls, keys and bounds: its state  *)
(* is well typed, what a client is told is true, a second row for a key is *)
(* only created when the first answer could not be seen, and a limiter     *)
(* that is pruned at any time lets through what it should.                 *)
(***************************************************************************)
EXTENDS GameRequests, TLAPS

-----------------------------------------------------------------------------
(***************************************************************************)
(* The inductive invariant                                                 *)
(***************************************************************************)

CallShape == [at : {"sending", "waiting", "done"}, asked : Asked, attempt : 0 .. MaxAttempts,
              status : Status, row : Id \cup {NoRow}]

CallsOK ==
  /\ calls \in [Call -> CallShape]
  /\ \A c \in Call : calls[c].at = "sending" => calls[c].attempt < MaxAttempts

(* What an answer of success to call c promises.                           *)
Told(c, status, row) ==
  status \in {200, 201} =>
    /\ row \in DOMAIN rows
    /\ rows[row].asked = calls[c].asked
    /\ calls[c].asked.key = NoKey => row[1] = c

(* A look at t for an answer finds none: one that had been stored earlier  *)
(* had expired.                                                            *)
Missed(asked, t) ==
  \A i \in DOMAIN rows :
    rows[i].asked = asked /\ rows[i].recorded < t => t - rows[i].recorded > TTL

LookedOK(asked, t) == t # Never => t <= now /\ Missed(asked, t)

RequestShape == [at : {"sent", "handler", "put", "answer"}, looked : Time \cup {Never},
                 status : Status, row : Id \cup {NoRow}]

RequestOK(i, r) ==
  /\ r \in RequestShape
  /\ Told(i[1], r.status, r.row)
  /\ LookedOK(Asking(i), r.looked)
  /\ r.at = "put" => r.row = i /\ r.status = 201 /\ Keyed(Asking(i))

RequestsOK ==
  /\ DOMAIN requests \subseteq Id
  /\ \A i \in DOMAIN requests : RequestOK(i, requests[i])

RowShape == [asked : Asked, looked : Time \cup {Never}, recorded : Time \cup {Never}]

(* The answer for a row is in the store, unless it has expired.            *)
Stored(k, t) ==
  t # Never =>
    /\ t <= now
    /\ now - t > TTL \/ (k \in DOMAIN records /\ records[k].createdAt >= t)

RowOK(i, x) ==
  /\ x \in RowShape
  /\ x.asked = Asking(i)
  /\ LookedOK(x.asked, x.looked)
  /\ Stored(RecordKey(x.asked), x.recorded)

RowsOK ==
  /\ DOMAIN rows \subseteq Id
  /\ \A i \in DOMAIN rows : RowOK(i, rows[i])

(* A stored answer names a row that was created under its key.             *)
RecordOK(k, a) ==
  /\ a \in [row : Id, createdAt : Time]
  /\ a.createdAt <= now
  /\ a.row \in DOMAIN rows
  /\ RecordKey(rows[a.row].asked) = k

RecordsOK ==
  /\ DOMAIN records \subseteq Route \X Key
  /\ \A k \in DOMAIN records : RecordOK(k, records[k])

(* The log a of a client, in order and not ahead of t.                     *)
InOrder(a, t) ==
  /\ a \in Seq(Time)
  /\ \A m \in 1 .. Len(a) : a[m] <= t
  /\ \A l, m \in 1 .. Len(a) : l <= m => a[l] <= a[m]

(* LessThanTwiceTheLimit of one log.                                       *)
Spaced(a) ==
  \A n \in 1 .. Len(a) - 2 * Limit + 1 : a[n + 2 * Limit - 1] - a[n] >= Window

(* Of the first n that passed, fewer than Limit did so in the span of a    *)
(* window that ends at t.                                                  *)
Clear(a, n, t) == n >= Limit => a[n - Limit + 1] <= t - Window

(* A window w counts the last that passed, the first of them at its start. *)
WindowOK(a, w) ==
  /\ w \in [startedAt : Time, count : 1 .. Limit]
  /\ w.count <= Len(a)
  /\ a[Len(a) - w.count + 1] = w.startedAt
  /\ Clear(a, Len(a) - w.count, w.startedAt)

(* The limiter with windows ws.                                            *)
LimiterOK(ws) ==
  /\ DOMAIN ws \subseteq Client
  /\ admitted \in [Client -> Seq(Time)]
  /\ \A k \in Client :
       /\ InOrder(admitted[k], now)
       /\ Spaced(admitted[k])
       /\ IF k \in DOMAIN ws THEN WindowOK(admitted[k], ws[k])
                             ELSE Clear(admitted[k], Len(admitted[k]), now)

RequestInv ==
  /\ now \in Time
  /\ lastPrune \in Int
  /\ CallsOK
  /\ RequestsOK
  /\ RowsOK
  /\ RecordsOK
  /\ LimiterOK(windows)
  /\ AnswersAreTrue

-----------------------------------------------------------------------------
(***************************************************************************)
(* Constants and logs                                                      *)
(***************************************************************************)

LEMMA Constants ==
  /\ Limit \in Nat /\ Limit >= 1 /\ Window \in Nat /\ Window >= 1
  /\ PruneInterval \in Nat /\ MaxAttempts \in Nat /\ MaxAttempts >= 1
  /\ TTL \in Nat /\ MaxTime \in Nat
  /\ \A t \in Time : t \in Nat /\ t < Never
  /\ Never \in Nat /\ Never \notin Time
BY RequestConstants DEF Time, Never

LEMMA Appended ==
  ASSUME NEW a \in Seq(Time), NEW t \in Time
  PROVE  /\ Append(a, t) \in Seq(Time) /\ Len(a) \in Nat /\ Len(Append(a, t)) = Len(a) + 1
         /\ \A m \in 1 .. Len(a) : Append(a, t)[m] = a[m] /\ a[m] \in Time
         /\ Append(a, t)[Len(a) + 1] = t
OBVIOUS

LEMMA LogTypes ==
  ASSUME NEW a, NEW t \in Time, InOrder(a, t)
  PROVE  /\ a \in Seq(Time) /\ Len(a) \in Nat /\ t \in Nat
         /\ \A m \in 1 .. Len(a) : a[m] \in Time /\ a[m] \in Nat /\ a[m] <= t
         /\ \A l, m \in 1 .. Len(a) : l <= m => a[l] <= a[m]
<1>1. a \in Seq(Time)
  BY DEF InOrder
<1>2. Len(a) \in Nat /\ \A m \in 1 .. Len(a) : a[m] \in Time
  BY <1>1
<1> QED
  BY <1>1, <1>2, Constants DEF InOrder

LEMMA WindowTypes ==
  ASSUME NEW a, NEW w, WindowOK(a, w)
  PROVE  /\ w.startedAt \in Time /\ w.startedAt \in Nat
         /\ w.count \in Nat /\ w.count >= 1 /\ w.count <= Limit
<1>1. w.startedAt \in Time /\ w.count \in 1 .. Limit
  BY DEF WindowOK
<1> QED
  BY <1>1, Constants

LEMMA StaysInOrder ==
  ASSUME NEW a, NEW t \in Time, InOrder(a, t)
  PROVE  InOrder(Append(a, t), t)
<1>1. /\ Append(a, t) \in Seq(Time) /\ Len(a) \in Nat /\ Len(Append(a, t)) = Len(a) + 1
      /\ \A m \in 1 .. Len(a) : Append(a, t)[m] = a[m] /\ a[m] \in Time
      /\ Append(a, t)[Len(a) + 1] = t
  BY Appended DEF InOrder
<1>2. t \in Nat /\ t <= t
  BY Constants
<1>3. \A m \in 1 .. Len(a) + 1 : m \in 1 .. Len(a) \/ m = Len(a) + 1
  BY <1>1
<1>4. \A m \in 1 .. Len(a) + 1 : Append(a, t)[m] <= t
  BY <1>1, <1>2, <1>3 DEF InOrder
<1>5. ASSUME NEW l \in 1 .. Len(a) + 1, NEW m \in 1 .. Len(a) + 1, l <= m
      PROVE  Append(a, t)[l] <= Append(a, t)[m]
  <2>1. CASE m = Len(a) + 1
    BY <1>1, <1>4, <2>1
  <2>2. CASE m # Len(a) + 1
    <3>1. m \in 1 .. Len(a) /\ l \in 1 .. Len(a)
      BY <1>1, <1>5, <2>2
    <3> QED
      BY <1>1, <1>5, <3>1 DEF InOrder
  <2> QED
    BY <2>1, <2>2
<1> QED
  BY <1>1, <1>4, <1>5 DEF InOrder

LEMMA LeqTransitive ==
  ASSUME NEW x \in Nat, NEW y \in Nat, NEW z \in Int, x <= y, y <= z
  PROVE  x <= z
OBVIOUS

(* One more passes, at most the Limit-th since the first n.                *)
LEMMA StaysSpaced ==
  ASSUME NEW a, NEW t \in Time, InOrder(a, t), Spaced(a),
         NEW n \in 0 .. Len(a), Len(a) + 1 - n <= Limit,
         NEW u \in Time, u <= t, Clear(a, n, u)
  PROVE  Spaced(Append(a, t))
<1> DEFINE b == Append(a, t)
<1>1. /\ Len(a) \in Nat /\ Len(b) = Len(a) + 1
      /\ \A m \in 1 .. Len(a) : b[m] = a[m] /\ a[m] \in Nat
      /\ b[Len(a) + 1] = t /\ t \in Nat /\ u \in Nat
      /\ Limit \in Nat /\ Limit >= 1 /\ Window \in Nat
  BY Appended, LogTypes, Constants
<1> SUFFICES ASSUME NEW m \in 1 .. Len(b) - 2 * Limit + 1
             PROVE  b[m + 2 * Limit - 1] - b[m] >= Window
  BY DEF Spaced
<1> HIDE DEF b
<1>2. CASE m \in 1 .. Len(a) - 2 * Limit + 1
  <2>1. m \in 1 .. Len(a) /\ m + 2 * Limit - 1 \in 1 .. Len(a)
    BY <1>1, <1>2
  <2>2. a[m + 2 * Limit - 1] - a[m] >= Window
    BY <1>2 DEF Spaced
  <2>3. b[m] = a[m] /\ b[m + 2 * Limit - 1] = a[m + 2 * Limit - 1]
    BY <1>1, <2>1
  <2> QED
    BY <2>2, <2>3
<1>3. CASE m = Len(a) + 1 - 2 * Limit + 1
  <2>1. /\ m + 2 * Limit - 1 = Len(a) + 1 /\ m \in 1 .. Len(a)
        /\ n >= Limit /\ n - Limit + 1 \in 1 .. Len(a) /\ m <= n - Limit + 1
    <3> HIDE DEF b
    <3>1. m = Len(a) + 2 - 2 * Limit /\ n \in Nat /\ n <= Len(a)
      BY <1>1, <1>3
    <3> QED
      BY <1>1, <3>1
  <2>2. a[m] <= a[n - Limit + 1]
    BY <2>1, LogTypes
  <2>3. a[n - Limit + 1] <= u - Window
    BY <2>1 DEF Clear
  <2>4. b[m] = a[m] /\ b[m + 2 * Limit - 1] = t /\ a[m] \in Nat /\ a[n - Limit + 1] \in Nat
    BY <1>1, <2>1
  <2>5. b[m] \in Nat /\ b[m] <= u - Window
    <3>1. u - Window \in Int
      BY <1>1
    <3>2. a[m] <= u - Window
      BY <2>2, <2>3, <2>4, <3>1, LeqTransitive
    <3> QED
      BY <2>4, <3>2
  <2> QED
    BY <1>1, <2>4, <2>5
<1>4. m \in 1 .. Len(a) - 2 * Limit + 1 \/ m = Len(a) + 1 - 2 * Limit + 1
  BY <1>1
<1> QED
  BY <1>2, <1>3, <1>4

LEMMA StaysClear ==
  ASSUME NEW a, NEW t \in Time, InOrder(a, t), NEW n \in 0 .. Len(a),
         NEW u \in Int, NEW v \in Int, u <= v, Clear(a, n, u)
  PROVE  Clear(a, n, v) /\ Clear(Append(a, t), n, v)
<1> SUFFICES ASSUME n >= Limit
             PROVE  /\ a[n - Limit + 1] <= v - Window
                    /\ Append(a, t)[n - Limit + 1] <= v - Window
  BY DEF Clear
<1>1. n - Limit + 1 \in 1 .. Len(a) /\ Len(a) \in Nat
  BY Constants DEF InOrder
<1>2. a[n - Limit + 1] <= u - Window
  BY DEF Clear
<1>3. /\ a[n - Limit + 1] \in Nat /\ Window \in Nat
      /\ Append(a, t)[n - Limit + 1] = a[n - Limit + 1]
  BY <1>1, Appended, Constants DEF InOrder
<1>4. a[n - Limit + 1] <= v - Window
  BY <1>2, <1>3
<1> QED
  BY <1>3, <1>4

(* A window that is over says that fewer than Limit passed in the span of  *)
(* a window.                                                               *)
LEMMA OverIsClear ==
  ASSUME NEW a, NEW t \in Time, InOrder(a, t), NEW w, WindowOK(a, w),
         t - w.startedAt >= Window
  PROVE  Clear(a, Len(a), t)
<1> SUFFICES ASSUME Len(a) >= Limit
             PROVE  a[Len(a) - Limit + 1] <= t - Window
  BY DEF Clear
<1>1. /\ Len(a) \in Nat /\ Limit \in Nat /\ Limit >= 1 /\ Window \in Nat /\ t \in Nat
      /\ w.count \in 1 .. Limit /\ w.count <= Len(a) /\ w.startedAt \in Nat
      /\ a[Len(a) - w.count + 1] = w.startedAt
  BY Constants, LogTypes, WindowTypes DEF WindowOK
<1>2. /\ Len(a) - Limit + 1 \in 1 .. Len(a) /\ Len(a) - w.count + 1 \in 1 .. Len(a)
      /\ Len(a) - Limit + 1 <= Len(a) - w.count + 1
  BY <1>1
<1>3. a[Len(a) - Limit + 1] <= w.startedAt /\ a[Len(a) - Limit + 1] \in Nat
  BY <1>1, <1>2, LogTypes
<1> QED
  BY <1>1, <1>3

(* A client passes that has an open window with room.                      *)
LEMMA PassesInWindow ==
  ASSUME NEW a, NEW t \in Time, InOrder(a, t), Spaced(a), NEW w, WindowOK(a, w), ~Full(w)
  PROVE  /\ Spaced(Append(a, t))
         /\ WindowOK(Append(a, t), [w EXCEPT !.count = @ + 1])
<1> DEFINE n == Len(a) - w.count
<1>1. /\ Len(a) \in Nat /\ Limit \in Nat /\ Limit >= 1
      /\ w.count \in 1 .. Limit /\ w.count <= Len(a) /\ w.startedAt \in Time
      /\ a[Len(a) - w.count + 1] = w.startedAt /\ w.count < Limit
  BY Constants DEF InOrder, WindowOK, Full
<1>2. n \in 0 .. Len(a) /\ Len(a) - w.count + 1 \in 1 .. Len(a) /\ Len(a) + 1 - n <= Limit
  BY <1>1
<1>3. w.startedAt <= t /\ Clear(a, n, w.startedAt)
  BY <1>1, <1>2 DEF InOrder, WindowOK
<1>4. Spaced(Append(a, t))
  BY <1>1, <1>2, <1>3, StaysSpaced
<1>5. Clear(Append(a, t), n, w.startedAt)
  <2> HIDE DEF n
  <2>1. w.startedAt \in Int /\ w.startedAt <= w.startedAt
    BY <1>1, Constants
  <2> QED
    BY <1>2, <1>3, <2>1, StaysClear
<1>6. /\ [w EXCEPT !.count = @ + 1] \in [startedAt : Time, count : 1 .. Limit]
      /\ [w EXCEPT !.count = @ + 1].count = w.count + 1
      /\ [w EXCEPT !.count = @ + 1].startedAt = w.startedAt
  BY <1>1 DEF WindowOK
<1>7. /\ Len(Append(a, t)) = Len(a) + 1 /\ Len(a) + 1 - (w.count + 1) = n
      /\ Append(a, t)[n + 1] = w.startedAt
  BY <1>1, <1>2, Appended DEF InOrder
<1> QED
  BY <1>1, <1>4, <1>5, <1>6, <1>7 DEF WindowOK

(* A client passes that has none, or one that is over.                     *)
LEMMA PassesAnew ==
  ASSUME NEW a, NEW t \in Time, InOrder(a, t), Spaced(a), Clear(a, Len(a), t)
  PROVE  /\ Spaced(Append(a, t))
         /\ WindowOK(Append(a, t), [startedAt |-> t, count |-> 1])
<1>1. /\ Len(a) \in Nat /\ Len(a) \in 0 .. Len(a) /\ Limit \in Nat /\ Limit >= 1 /\ t \in Nat
      /\ 1 \in 1 .. Limit /\ Len(a) + 1 - Len(a) <= Limit /\ t <= t
  BY Constants DEF InOrder
<1>2. Spaced(Append(a, t))
  BY <1>1, StaysSpaced
<1>3. Clear(Append(a, t), Len(a), t)
  BY <1>1, StaysClear
<1>4. /\ Len(Append(a, t)) = Len(a) + 1 /\ Append(a, t)[Len(a) + 1] = t
      /\ Len(Append(a, t)) - 1 = Len(a) /\ Len(Append(a, t)) - 1 + 1 = Len(a) + 1
      /\ 1 <= Len(Append(a, t))
  BY <1>1, Appended DEF InOrder
<1> DEFINE w == [startedAt |-> t, count |-> 1]
<1>5. w \in [startedAt : Time, count : 1 .. Limit] /\ w.count = 1 /\ w.startedAt = t
  BY <1>1
<1> HIDE DEF w
<1>6. WindowOK(Append(a, t), w)
  BY <1>3, <1>4, <1>5 DEF WindowOK
<1> QED
  BY <1>2, <1>6 DEF w

-----------------------------------------------------------------------------
(***************************************************************************)
(* The limiter                                                             *)
(***************************************************************************)

LEMMA LimiterInit == Init => LimiterOK(windows)
<1> SUFFICES ASSUME Init PROVE LimiterOK(windows)
  OBVIOUS
<1>1. /\ windows = [k \in {} |-> {}] /\ admitted = [k \in Client |-> <<>>]
      /\ Limit \in Nat /\ Limit >= 1
  BY Constants DEF Init
<1>2. <<>> \in Seq(Time) /\ Len(<<>>) = 0 /\ ~(0 >= Limit) /\ 1 .. 0 = {}
      /\ 1 .. 0 - 2 * Limit + 1 = {}
  BY <1>1
<1>3. InOrder(<<>>, now) /\ Spaced(<<>>) /\ Clear(<<>>, Len(<<>>), now)
  BY <1>2 DEF InOrder, Spaced, Clear
<1> QED
  BY <1>1, <1>2, <1>3 DEF LimiterOK

(* Pruning drops only windows that are over.                               *)
LEMMA PruningIsSafe ==
  ASSUME RequestInv
  PROVE  LimiterOK(Pruned)
<1>1. CASE now - lastPrune < PruneInterval
  BY <1>1 DEF RequestInv, Pruned
<1>2. CASE ~(now - lastPrune < PruneInterval)
  <2> DEFINE Kept == {k \in DOMAIN windows : now - windows[k].startedAt < Window}
  <2>1. Pruned = [k \in Kept |-> windows[k]]
    BY <1>2 DEF Pruned
  <2> SUFFICES ASSUME NEW k \in Client
               PROVE  IF k \in Kept THEN WindowOK(admitted[k], windows[k])
                                    ELSE Clear(admitted[k], Len(admitted[k]), now)
    BY <2>1 DEF RequestInv, LimiterOK
  <2>2. CASE k \in Kept
    BY <2>2 DEF RequestInv, LimiterOK
  <2>3. CASE k \notin DOMAIN windows
    BY <2>3 DEF RequestInv, LimiterOK
  <2>4. CASE k \in DOMAIN windows /\ ~(now - windows[k].startedAt < Window)
    <3>1. InOrder(admitted[k], now) /\ WindowOK(admitted[k], windows[k]) /\ now \in Time
      BY <2>4 DEF RequestInv, LimiterOK
    <3>2. now - windows[k].startedAt >= Window
      BY <2>4, <3>1, WindowTypes, Constants
    <3> QED
      BY <2>4, <3>1, <3>2, OverIsClear
  <2> QED
    BY <2>2, <2>3, <2>4
<1> QED
  BY <1>1, <1>2

LEMMA RefusalKeeps ==
  ASSUME RequestInv, windows' = Pruned, UNCHANGED <<now, admitted>>
  PROVE  LimiterOK(windows)'
BY PruningIsSafe DEF LimiterOK

LEMMA AdmissionKeeps ==
  ASSUME RequestInv, NEW i, Asking(i).client \in Client, ~Refused(i), Admit(i), UNCHANGED now
  PROVE  LimiterOK(windows)'
<1> PICK ws : ws = Pruned
  OBVIOUS
<1> PICK k \in Client : k = Asking(i).client
  OBVIOUS
<1> PICK a : a = admitted[k]
  OBVIOUS
<1> DEFINE open == k \in DOMAIN ws /\ now - ws[k].startedAt < Window
<1>1. LimiterOK(ws) /\ now \in Time
  BY PruningIsSafe DEF RequestInv
<1>2. /\ InOrder(a, now) /\ Spaced(a)
      /\ IF k \in DOMAIN ws THEN WindowOK(a, ws[k]) ELSE Clear(a, Len(a), now)
  BY <1>1 DEF LimiterOK
<1>3. /\ DOMAIN windows' = DOMAIN ws \cup {k}
      /\ \A x \in DOMAIN windows' : windows'[x] =
           IF x # k THEN ws[x]
           ELSE IF open THEN [ws[k] EXCEPT !.count = @ + 1]
           ELSE [startedAt |-> now, count |-> 1]
      /\ admitted' = [admitted EXCEPT ![k] = Append(a, now)]
      /\ ~(open /\ Full(ws[k]))
  BY DEF Admit, Refused, Open
<1>4. InOrder(Append(a, now), now) /\ Append(a, now) \in Seq(Time)
  BY <1>1, <1>2, StaysInOrder DEF InOrder
<1>5. Spaced(Append(a, now)) /\ WindowOK(Append(a, now), windows'[k])
  <2>1. CASE open
    BY <1>1, <1>2, <1>3, <2>1, PassesInWindow
  <2>2. CASE ~open
    <3>1. Clear(a, Len(a), now)
      <4>1. CASE k \in DOMAIN ws
        <5>1. now - ws[k].startedAt >= Window
          BY <1>1, <1>2, <2>2, <4>1, WindowTypes, Constants
        <5> QED
          BY <1>1, <1>2, <4>1, <5>1, OverIsClear
      <4>2. CASE k \notin DOMAIN ws
        BY <1>2, <4>2
      <4> QED
        BY <4>1, <4>2
    <3> QED
      BY <1>1, <1>2, <1>3, <2>2, <3>1, PassesAnew
  <2> QED
    BY <2>1, <2>2
<1>6. /\ admitted' \in [Client -> Seq(Time)] /\ admitted'[k] = Append(a, now)
      /\ \A x \in Client : x # k => admitted'[x] = admitted[x]
  BY <1>1, <1>3, <1>4 DEF LimiterOK
<1>7. DOMAIN windows' \subseteq Client
  BY <1>1, <1>3 DEF LimiterOK
<1>8. ASSUME NEW x \in Client
      PROVE  /\ InOrder(admitted'[x], now) /\ Spaced(admitted'[x])
             /\ IF x \in DOMAIN windows' THEN WindowOK(admitted'[x], windows'[x])
                                         ELSE Clear(admitted'[x], Len(admitted'[x]), now)
  <2>1. CASE x = k
    BY <1>3, <1>4, <1>5, <1>6, <2>1
  <2>2. CASE x # k
    <3>1. x \in DOMAIN windows' <=> x \in DOMAIN ws
      BY <1>3, <2>2
    <3>2. x \in DOMAIN ws => windows'[x] = ws[x]
      BY <1>3, <2>2
    <3> QED
      BY <1>1, <1>6, <2>2, <3>1, <3>2 DEF LimiterOK
  <2> QED
    BY <2>1, <2>2
<1> QED
  BY <1>6, <1>7, <1>8 DEF LimiterOK, InOrder, Spaced, WindowOK, Clear

LEMMA TickKeepsLimiter ==
  ASSUME RequestInv, Tick
  PROVE  LimiterOK(windows)'
<1>1. now \in Nat /\ now' = now + 1 /\ now' \in Time /\ UNCHANGED <<windows, admitted>>
  BY Constants DEF RequestInv, Tick, Time
<1> PICK t : t = now'
  OBVIOUS
<1>2. t \in Time /\ now \in Time /\ t \in Int /\ now <= t
  BY <1>1 DEF RequestInv
<1>3. ASSUME NEW k \in Client
      PROVE  /\ InOrder(admitted[k], t)
             /\ k \notin DOMAIN windows => Clear(admitted[k], Len(admitted[k]), t)
  <2>1. InOrder(admitted[k], now)
    BY DEF RequestInv, LimiterOK
  <2>2. \A m \in 1 .. Len(admitted[k]) : admitted[k][m] <= t
    BY <1>1, <1>2, <2>1, LogTypes
  <2>3. Len(admitted[k]) \in 0 .. Len(admitted[k])
    BY <1>2, <2>1, LogTypes
  <2>4. k \notin DOMAIN windows => Clear(admitted[k], Len(admitted[k]), now)
    BY DEF RequestInv, LimiterOK
  <2>5. ASSUME k \notin DOMAIN windows PROVE Clear(admitted[k], Len(admitted[k]), t)
    <3> PICK a, u : a = admitted[k] /\ u = now
      OBVIOUS
    <3>1. InOrder(a, u) /\ Len(a) \in 0 .. Len(a) /\ Clear(a, Len(a), u) /\ u \in Time
          /\ u \in Int /\ u <= t
      BY <1>1, <1>2, <2>1, <2>3, <2>4, <2>5
    <3> QED
      BY <1>2, <3>1, StaysClear
  <2> QED
    BY <2>1, <2>2, <2>5 DEF InOrder
<1> QED
  BY <1>1, <1>3 DEF RequestInv, LimiterOK, InOrder, Spaced, WindowOK, Clear

-----------------------------------------------------------------------------
(***************************************************************************)
(* Rows, records and answers                                               *)
(***************************************************************************)

LEMMA Askings ==
  ASSUME CallsOK, NEW i \in Id
  PROVE  /\ i[1] \in Call /\ Asking(i) \in Asked
         /\ Asking(i).client \in Client /\ Asking(i).route \in Route
         /\ Asking(i).key \in Key \cup {NoKey}
         /\ i \in Id \cup {NoRow} /\ i # NoRow
<1>1. i[1] \in Call /\ i[2] \in Nat /\ i = <<i[1], i[2]>>
  BY Constants DEF Id
<1>2. Asking(i) \in Asked
  BY <1>1 DEF CallsOK, CallShape, Asking
<1>3. i # NoRow
  BY <1>1, RequestConstants
<1> QED
  BY <1>1, <1>2, <1>3 DEF Asked, Client, Route

LEMMA KeyedAsked ==
  ASSUME NEW a \in Asked
  PROVE  /\ a.key # NoKey <=> a.client = "importer"
         /\ Keyed(a) => a.key \in Key /\ RecordKey(a) \in Route \X Key
         /\ \A b \in Asked : a.key # NoKey /\ RecordKey(a) = RecordKey(b) => a = b
BY RequestConstants DEF Asked, Route, Keyed, RecordKey

(* What every step does to the rows, the calls and the clock.              *)
Evolves ==
  /\ now' \in Time /\ now <= now'
  /\ \A c \in Call : calls'[c].asked = calls[c].asked
  /\ DOMAIN rows \subseteq DOMAIN rows'
  /\ \A i \in DOMAIN rows :
       /\ rows'[i].asked = rows[i].asked
       /\ rows'[i].recorded \in {rows[i].recorded, now, Never}
  /\ \A i \in DOMAIN rows' \ DOMAIN rows : rows'[i].recorded = Never

LEMMA NothingMoves ==
  ASSUME RequestInv, UNCHANGED <<now, rows>>, \A c \in Call : calls'[c].asked = calls[c].asked
  PROVE  Evolves
<1>1. now \in Time /\ now <= now
  BY Constants DEF RequestInv
<1> QED
  BY <1>1 DEF Evolves

LEMMA LookedStays ==
  ASSUME RequestInv, Evolves, NEW asked, NEW t \in Time \cup {Never}, LookedOK(asked, t)
  PROVE  LookedOK(asked, t)'
<1> SUFFICES ASSUME t # Never, NEW i \in DOMAIN rows', rows'[i].asked = asked,
                    rows'[i].recorded < t
             PROVE  t - rows'[i].recorded > TTL
  <2>1. t # Never => t <= now'
    BY Constants DEF LookedOK, Evolves, RequestInv
  <2> QED
    BY <2>1 DEF LookedOK, Missed
<1>1. t \in Nat /\ t <= now /\ t < Never /\ now \in Nat
  BY Constants DEF LookedOK, RequestInv
<1>2. CASE i \notin DOMAIN rows
  BY <1>1, <1>2, Constants DEF Evolves
<1>3. CASE i \in DOMAIN rows
  <2>1. rows'[i].recorded = rows[i].recorded /\ rows[i].asked = asked
    BY <1>1, <1>3, Constants DEF Evolves
  <2> QED
    BY <1>3, <2>1 DEF LookedOK, Missed
<1> QED
  BY <1>2, <1>3

LEMMA ToldStays ==
  ASSUME RequestInv, Evolves, NEW c \in Call, NEW status, NEW row, Told(c, status, row)
  PROVE  Told(c, status, row)'
BY DEF Told, Evolves

LEMMA RequestStays ==
  ASSUME RequestInv, Evolves, NEW i \in Id, NEW r, RequestOK(i, r)
  PROVE  RequestOK(i, r)'
<1>1. i[1] \in Call /\ Asking(i)' = Asking(i)
  BY Askings DEF RequestInv, Evolves, Asking
<1>2. r.looked \in Time \cup {Never} /\ LookedOK(Asking(i), r.looked)
  BY DEF RequestOK, RequestShape
<1> PICK asked : asked = Asking(i)
  OBVIOUS
<1>3. LookedOK(asked, r.looked)'
  BY <1>2, LookedStays
<1>4. Told(i[1], r.status, r.row)'
  BY <1>1, ToldStays DEF RequestOK
<1>5. LookedOK(Asking(i), r.looked)'
  BY <1>1, <1>3 DEF LookedOK, Missed
<1> QED
  BY <1>1, <1>4, <1>5 DEF RequestOK

(* Requests that a step leaves alone, and one that it moves.               *)
LEMMA RequestsKeep ==
  ASSUME RequestInv, Evolves, NEW i \in Id,
         DOMAIN requests' \subseteq DOMAIN requests \cup {i},
         \A j \in DOMAIN requests' : j # i => requests'[j] = requests[j],
         NEW s, i \in DOMAIN requests' => requests'[i] = s /\ RequestOK(i, s)'
  PROVE  RequestsOK'
<1>1. DOMAIN requests' \subseteq Id
  BY DEF RequestInv, RequestsOK
<1>2. ASSUME NEW j \in DOMAIN requests' PROVE RequestOK(j, requests[j])'
  <2> PICK r : r = requests'[j]
    OBVIOUS
  <2>1. CASE j # i
    <3>1. RequestOK(j, r) /\ j \in Id
      BY <2>1 DEF RequestInv, RequestsOK
    <3> QED
      BY <3>1, RequestStays DEF RequestOK, Told, LookedOK, Missed
  <2>2. CASE j = i
    BY <2>2 DEF RequestOK, Told, LookedOK, Missed
  <2> QED
    BY <2>1, <2>2
<1> QED
  BY <1>1, <1>2 DEF RequestsOK

LEMMA RequestsStay ==
  ASSUME RequestInv, Evolves, NEW i,
         requests' = requests \/ requests' = Without(requests, i)
  PROVE  RequestsOK'
<1>1. DOMAIN requests' \subseteq DOMAIN requests
      /\ \A j \in DOMAIN requests' : requests'[j] = requests[j]
  BY DEF Without
<1>2. ASSUME NEW j \in DOMAIN requests' PROVE j \in Id /\ RequestOK(j, requests[j])'
  <2> PICK r : r = requests'[j]
    OBVIOUS
  <2>1. RequestOK(j, r) /\ j \in Id
    BY <1>1 DEF RequestInv, RequestsOK
  <2> QED
    BY <2>1, RequestStays DEF RequestOK, Told, LookedOK, Missed
<1> QED
  BY <1>1, <1>2 DEF RequestsOK

(* The answer of request i is on its way, or nobody waits for it.          *)
LEMMA AnswersKeep ==
  ASSUME RequestInv, Evolves, NEW i \in DOMAIN requests, NEW status \in Status,
         NEW row \in Id \cup {NoRow}, Told(i[1], status, row)', Answers(i, status, row)
  PROVE  RequestsOK'
<1>1. i \in Id
  BY DEF RequestInv, RequestsOK
<1>2. CASE requests' = Without(requests, i)
  BY <1>2, RequestsStay
<1>3. CASE requests' = [requests EXCEPT ![i] = [@ EXCEPT !.at = "answer", !.status = status,
                                                       !.row = row]]
  <2> PICK r : r = requests[i]
    OBVIOUS
  <2> PICK s : s = [r EXCEPT !.at = "answer", !.status = status, !.row = row]
    OBVIOUS
  <2>1. r \in RequestShape /\ RequestOK(i, r)
    BY DEF RequestInv, RequestsOK, RequestOK
  <2>2. /\ s \in RequestShape /\ s.at = "answer" /\ s.looked = r.looked
        /\ s.status = status /\ s.row = row
    BY <2>1 DEF RequestShape
  <2>3. RequestOK(i, r)'
    BY <1>1, <2>1, RequestStays
  <2>4. RequestOK(i, s)'
    BY <2>2, <2>3 DEF RequestOK
  <2>5. /\ DOMAIN requests' = DOMAIN requests /\ requests'[i] = s
        /\ \A j \in DOMAIN requests' : j # i => requests'[j] = requests[j]
    BY <1>3
  <2> QED
    BY <1>1, <2>4, <2>5, RequestsKeep
<1> QED
  BY <1>2, <1>3 DEF Answers

(* Steps that write neither rows nor records.                              *)
LEMMA StoreStays ==
  ASSUME RequestInv, Evolves, UNCHANGED <<rows, records>>
  PROVE  RowsOK' /\ RecordsOK'
<1>1. now \in Nat /\ now' \in Nat /\ now <= now'
  BY Constants DEF RequestInv, Evolves
<1>2. ASSUME NEW i \in DOMAIN rows PROVE RowOK(i, rows[i])'
  <2> PICK x : x = rows[i]
    OBVIOUS
  <2>1. /\ i \in Id /\ x \in RowShape /\ x.asked = Asking(i)
        /\ LookedOK(x.asked, x.looked) /\ Stored(RecordKey(x.asked), x.recorded)
    BY DEF RequestInv, RowsOK, RowOK
  <2>2. Asking(i)' = Asking(i)
    BY <2>1, Askings DEF RequestInv, Evolves, Asking
  <2>3. LookedOK(x.asked, x.looked)'
    <3>1. x.looked \in Time \cup {Never}
      BY <2>1 DEF RowShape
    <3> QED
      BY <2>1, <3>1, LookedStays
  <2>4. Stored(RecordKey(x.asked), x.recorded)'
    <3>1. x.recorded \in Nat /\ TTL \in Nat
      BY <2>1, Constants DEF RowShape
    <3> QED
      BY <1>1, <2>1, <3>1 DEF Stored, RecordKey
  <2> QED
    BY <2>1, <2>2, <2>3, <2>4 DEF RowOK, LookedOK, Missed, Stored, RecordKey
<1>3. RowsOK'
  BY <1>2 DEF RequestInv, RowsOK
<1>4. \A k \in DOMAIN records : records[k].createdAt \in Nat
  BY Constants DEF RequestInv, RecordsOK, RecordOK
<1>5. RecordsOK'
  BY <1>1, <1>4 DEF RequestInv, RecordsOK, RecordOK, RecordKey
<1> QED
  BY <1>3, <1>5

LEMMA TruthStays ==
  ASSUME RequestInv, Evolves, UNCHANGED calls
  PROVE  AnswersAreTrue' /\ CallsOK'
BY DEF RequestInv, Evolves, AnswersAreTrue, CallsOK

LEMMA CreatesKeep ==
  ASSUME RequestInv, NEW i \in DOMAIN requests, Creates(i), UNCHANGED <<now, calls, records>>
  PROVE  /\ Evolves /\ RowsOK' /\ RecordsOK'
         /\ i \in DOMAIN rows' /\ rows'[i].asked = Asking(i)
<1>1. i \in Id /\ now \in Time /\ now <= now
  BY Constants DEF RequestInv, RequestsOK
<1> PICK y : y = [asked |-> Asking(i), looked |-> requests[i].looked, recorded |-> Never]
  OBVIOUS
<1>2. /\ DOMAIN rows' = DOMAIN rows \cup {i} /\ rows'[i] = y
      /\ \A x \in DOMAIN rows : x # i => rows'[x] = rows[x]
  BY DEF Creates
<1>3. Evolves
  <2>1. i \in DOMAIN rows => rows[i].asked = Asking(i)
    BY DEF RequestInv, RowsOK, RowOK
  <2> QED
    BY <1>1, <1>2, <2>1 DEF Evolves
<1>4. /\ y \in RowShape /\ y.asked = Asking(i) /\ LookedOK(y.asked, y.looked)
      /\ y.recorded = Never
  <2>1. requests[i].looked \in Time \cup {Never} /\ LookedOK(Asking(i), requests[i].looked)
    BY DEF RequestInv, RequestsOK, RequestOK, RequestShape
  <2> QED
    BY <1>1, <2>1, Askings DEF RequestInv, RowShape
<1>5. ASSUME NEW j \in DOMAIN rows' PROVE j \in Id /\ RowOK(j, rows[j])'
  <2> PICK x : x = rows'[j]
    OBVIOUS
  <2>1. /\ j \in Id /\ x \in RowShape /\ x.asked = Asking(j)
        /\ LookedOK(x.asked, x.looked) /\ Stored(RecordKey(x.asked), x.recorded)
    <3>1. CASE j = i
      BY <1>1, <1>2, <1>4, <3>1 DEF Stored
    <3>2. CASE j # i
      BY <1>2, <3>2 DEF RequestInv, RowsOK, RowOK
    <3> QED
      BY <3>1, <3>2
  <2>2. LookedOK(x.asked, x.looked)'
    <3>1. x.looked \in Time \cup {Never}
      BY <2>1 DEF RowShape
    <3> QED
      BY <1>3, <2>1, <3>1, LookedStays
  <2> QED
    BY <2>1, <2>2 DEF RowOK, LookedOK, Missed, Stored, RecordKey, Asking
<1>6. RowsOK'
  BY <1>5 DEF RowsOK
<1>7. RecordsOK'
  BY <1>1, <1>3 DEF RequestInv, RecordsOK, RecordOK, RecordKey, Evolves
<1> QED
  BY <1>2, <1>3, <1>4, <1>6, <1>7

-----------------------------------------------------------------------------
(***************************************************************************)
(* Steps                                                                   *)
(***************************************************************************)

LEMMA RequestInit == Init => RequestInv
<1> SUFFICES ASSUME Init PROVE RequestInv
  OBVIOUS
<1>1. now \in Time /\ lastPrune \in Int
  BY Constants DEF Init, Time
<1>2. CallsOK /\ AnswersAreTrue
  BY Constants DEF Init, CallsOK, CallShape, AnswersAreTrue, Status
<1>3. RequestsOK /\ RowsOK /\ RecordsOK
  BY DEF Init, RequestsOK, RowsOK, RecordsOK
<1> QED
  BY <1>1, <1>2, <1>3, LimiterInit DEF RequestInv

LEMMA SendKeeps ==
  ASSUME RequestInv, NEW c \in Call, Send(c)
  PROVE  RequestInv'
<1> DEFINE n == calls[c].attempt + 1
<1>1. /\ calls[c] \in CallShape /\ n \in 1 .. MaxAttempts /\ n \in 0 .. MaxAttempts
  <2>1. calls[c] \in CallShape /\ calls[c].attempt < MaxAttempts
    BY DEF Send, RequestInv, CallsOK
  <2>2. calls[c].attempt \in 0 .. MaxAttempts
    BY <2>1 DEF CallShape
  <2> QED
    BY <2>1, <2>2, Constants
<1>2. /\ calls' = [calls EXCEPT ![c].at = "waiting", ![c].attempt = @ + 1]
      /\ UNCHANGED <<now, windows, lastPrune, admitted, records, rows>>
  BY DEF Send
<1> PICK call : call = [calls[c] EXCEPT !.at = "waiting", !.attempt = @ + 1]
  OBVIOUS
<1>3. call \in CallShape /\ call.at = "waiting" /\ call.asked = calls[c].asked
      /\ call.attempt = n
  <2> HIDE DEF n
  <2>1. call = [calls[c] EXCEPT !.at = "waiting", !.attempt = n]
    BY DEF n
  <2> QED
    BY <1>1, <2>1 DEF CallShape
<1>4. /\ calls' \in [Call -> CallShape] /\ calls'[c] = call
      /\ \A d \in Call : d # c => calls'[d] = calls[d]
  <2>1. calls' = [calls EXCEPT ![c] = call]
    BY <1>2
  <2> QED
    BY <1>3, <2>1 DEF RequestInv, CallsOK
<1>5. CallsOK' /\ AnswersAreTrue' /\ Evolves
  <2>1. \A d \in Call : calls'[d].asked = calls[d].asked
    BY <1>3, <1>4
  <2>2. CallsOK'
    BY <1>3, <1>4 DEF RequestInv, CallsOK
  <2>3. AnswersAreTrue'
    BY <1>2, <1>3, <1>4 DEF RequestInv, AnswersAreTrue
  <2> QED
    BY <1>2, <2>1, <2>2, <2>3, NothingMoves
<1> PICK i : i = <<c, n>>
  OBVIOUS
<1> PICK r : r = [at |-> "sent", looked |-> Never, status |-> 0, row |-> NoRow]
  OBVIOUS
<1>6. i \in Id /\ i = Current(c)' /\ i[1] = c
  BY <1>1, <1>3, <1>4 DEF Id, Current
<1>7. /\ DOMAIN requests' = DOMAIN requests \cup {i} /\ requests'[i] = r
      /\ \A j \in DOMAIN requests' : j # i => requests'[j] = requests[j]
  BY <1>6 DEF Send
<1>8. RequestOK(i, r)'
  BY Constants DEF RequestOK, RequestShape, Told, LookedOK, Status
<1>9. RequestsOK'
  BY <1>5, <1>6, <1>7, <1>8, RequestsKeep
<1>10. LimiterOK(windows)'
  BY <1>2 DEF RequestInv, LimiterOK
<1> QED
  BY <1>2, <1>5, <1>9, <1>10, StoreStays DEF RequestInv

LEMMA ConcludedKeeps ==
  ASSUME RequestInv, NEW c \in Call, calls[c].at = "waiting",
         NEW status \in Status, NEW row \in Id \cup {NoRow}, Told(c, status, row),
         Concluded(c, status, row), UNCHANGED <<now, windows, lastPrune, admitted, records, rows>>
  PROVE  Evolves /\ (RequestsOK' => RequestInv')
<1>1. /\ calls[c] \in CallShape /\ calls[c].attempt \in 0 .. MaxAttempts
  BY DEF RequestInv, CallsOK, CallShape
<1> PICK call : call = IF Retryable(status) /\ calls[c].attempt < MaxAttempts
                         THEN [calls[c] EXCEPT !.at = "sending"]
                         ELSE [calls[c] EXCEPT !.at = "done", !.status = status, !.row = row]
  OBVIOUS
<1>2. /\ call \in CallShape /\ call.asked = calls[c].asked
      /\ call.at = "sending" => call.attempt < MaxAttempts
      /\ call.at = "done" => call.status = status /\ call.row = row
  <2>1. CASE Retryable(status) /\ calls[c].attempt < MaxAttempts
    BY <1>1, <2>1 DEF CallShape
  <2>2. CASE ~(Retryable(status) /\ calls[c].attempt < MaxAttempts)
    BY <1>1, <2>2 DEF CallShape
  <2> QED
    BY <2>1, <2>2
<1>3. /\ calls' \in [Call -> CallShape] /\ calls'[c] = call
      /\ \A d \in Call : d # c => calls'[d] = calls[d]
  BY <1>2 DEF Concluded, RequestInv, CallsOK
<1>4. CallsOK'
  BY <1>2, <1>3 DEF RequestInv, CallsOK
<1>5. AnswersAreTrue'
  <2>1. ASSUME NEW d \in Call, d # c, calls'[d].at = "done", calls'[d].status \in {200, 201}
        PROVE  /\ calls'[d].row \in DOMAIN rows
               /\ rows[calls'[d].row].asked = calls'[d].asked
               /\ calls'[d].asked.key = NoKey => calls'[d].row[1] = d
    BY <1>3, <2>1 DEF RequestInv, AnswersAreTrue
  <2>2. calls'[c].at = "done" => Told(c, calls'[c].status, calls'[c].row)
    BY <1>2, <1>3
  <2>3. calls'[c].asked = calls[c].asked
    BY <1>2, <1>3
  <2> QED
    BY <2>1, <2>2, <2>3 DEF AnswersAreTrue, Told
<1>6. Evolves
  BY <1>2, <1>3, NothingMoves
<1>7. LimiterOK(windows)'
  BY DEF RequestInv, LimiterOK
<1> QED
  BY <1>4, <1>5, <1>6, <1>7, StoreStays DEF RequestInv

LEMMA HearKeeps ==
  ASSUME RequestInv, NEW c \in Call, Hear(c)
  PROVE  RequestInv'
<1> PICK i : i = Current(c)
  OBVIOUS
<1> PICK r : r = requests[i]
  OBVIOUS
<1>1. /\ calls[c].at = "waiting" /\ i \in DOMAIN requests
      /\ Concluded(c, r.status, r.row)
      /\ requests' = requests \/ requests' = Without(requests, i)
      /\ UNCHANGED <<now, windows, lastPrune, admitted, records, rows>>
  BY DEF Hear
<1>2. i[1] = c /\ r.status \in Status /\ r.row \in Id \cup {NoRow} /\ Told(i[1], r.status, r.row)
  BY <1>1 DEF Current, RequestInv, RequestsOK, RequestOK, RequestShape
<1>3. Evolves /\ (RequestsOK' => RequestInv')
  BY <1>1, <1>2, ConcludedKeeps
<1> QED
  BY <1>1, <1>3, RequestsStay

LEMMA NetworkErrorKeeps ==
  ASSUME RequestInv, NEW c \in Call, NetworkError(c)
  PROVE  RequestInv'
<1> PICK i : i = Current(c)
  OBVIOUS
<1>1. /\ calls[c].at = "waiting" /\ Concluded(c, 0, NoRow)
      /\ requests' = requests \/ requests' = Without(requests, i)
      /\ UNCHANGED <<now, windows, lastPrune, admitted, records, rows>>
  BY DEF NetworkError
<1>2. 0 \in Status /\ Told(c, 0, NoRow)
  BY DEF Status, Told
<1>3. Evolves /\ (RequestsOK' => RequestInv')
  BY <1>1, <1>2, ConcludedKeeps
<1> QED
  BY <1>1, <1>3, RequestsStay

(* What a request finds before its handler.                                *)
LEMMA LookUpKeeps ==
  ASSUME RequestInv, NEW i \in DOMAIN requests, LookUp(i), UNCHANGED <<now, calls, records, rows>>
  PROVE  RequestsOK'
<1> PICK k, asked : k = RecordKey(Asking(i)) /\ asked = Asking(i)
  OBVIOUS
<1> PICK r : r = requests[i]
  OBVIOUS
<1>1. /\ i \in Id /\ r \in RequestShape /\ RequestOK(i, r)
      /\ asked \in Asked /\ i[1] \in Call /\ asked = calls[i[1]].asked
      /\ Evolves /\ now \in Time
  BY Askings, NothingMoves DEF RequestInv, RequestsOK, RequestOK, Asking
<1>2. CASE Goes(i, "handler")
  <2> PICK s : s = [r EXCEPT !.at = "handler"]
    OBVIOUS
  <2>1. /\ s \in RequestShape /\ s.at = "handler" /\ s.looked = r.looked
        /\ s.status = r.status /\ s.row = r.row
    BY <1>1 DEF RequestShape
  <2>2. RequestOK(i, s)
    BY <1>1, <2>1 DEF RequestOK
  <2>3. RequestOK(i, s)'
    BY <1>1, <2>2, RequestStays
  <2>4. /\ DOMAIN requests' = DOMAIN requests /\ requests'[i] = s
        /\ \A j \in DOMAIN requests' : j # i => requests'[j] = requests[j]
    BY <1>2 DEF Goes
  <2> QED
    BY <1>1, <2>3, <2>4, RequestsKeep
<1>3. CASE /\ Keyed(asked) /\ ~Alive(k)
           /\ requests' = [requests EXCEPT ![i] = [@ EXCEPT !.at = "handler", !.looked = now]]
  <2> PICK s : s = [r EXCEPT !.at = "handler", !.looked = now]
    OBVIOUS
  <2>1. /\ s \in RequestShape /\ s.at = "handler" /\ s.looked = now
        /\ s.status = r.status /\ s.row = r.row
    BY <1>1 DEF RequestShape
  <2>2. LookedOK(asked, now)
    <3>1. now \in Nat /\ now < Never /\ TTL \in Nat
      BY <1>1, Constants
    <3>2. ASSUME NEW j \in DOMAIN rows, rows[j].asked = asked, rows[j].recorded < now
          PROVE  now - rows[j].recorded > TTL
      <4>1. RowOK(j, rows[j])
        BY DEF RequestInv, RowsOK
      <4>2. rows[j].recorded \in Nat
        BY <4>1, Constants DEF RowOK, RowShape
      <4>3. rows[j].recorded # Never
        BY <3>1, <3>2, <4>2, Constants
      <4>4. \/ now - rows[j].recorded > TTL
            \/ k \in DOMAIN records /\ records[k].createdAt >= rows[j].recorded
        BY <3>2, <4>1, <4>3 DEF RowOK, Stored
      <4>5. k \in DOMAIN records => records[k].createdAt \in Nat
        BY Constants DEF RequestInv, RecordsOK, RecordOK
      <4> QED
        BY <1>3, <3>1, <4>2, <4>4, <4>5 DEF Alive
    <3> QED
      BY <3>1, <3>2 DEF LookedOK, Missed
  <2>3. RequestOK(i, s)
    BY <1>1, <2>1, <2>2 DEF RequestOK
  <2>4. RequestOK(i, s)'
    BY <1>1, <2>3, RequestStays
  <2>5. /\ DOMAIN requests' = DOMAIN requests /\ requests'[i] = s
        /\ \A j \in DOMAIN requests' : j # i => requests'[j] = requests[j]
    BY <1>3
  <2> QED
    BY <1>1, <2>4, <2>5, RequestsKeep
<1>4. CASE Keyed(asked) /\ Alive(k) /\ Answers(i, 200, records[k].row)
  <2> PICK row : row = records[k].row
    OBVIOUS
  <2>1. /\ row \in Id /\ row \in DOMAIN rows
        /\ RecordKey(rows[row].asked) = k /\ rows[row].asked \in Asked
    BY <1>4 DEF Alive, RequestInv, RecordsOK, RecordOK, RowsOK, RowOK, RowShape
  <2>2. rows[row].asked = asked /\ asked.key # NoKey
    BY <1>1, <1>4, <2>1, KeyedAsked DEF Keyed
  <2>3. Told(i[1], 200, row)'
    BY <1>1, <2>1, <2>2 DEF Told
  <2>4. 200 \in Status /\ row \in Id \cup {NoRow} /\ Answers(i, 200, row)
    BY <1>4, <2>1 DEF Status
  <2> QED
    BY <1>1, <2>3, <2>4, AnswersKeep
<1> QED
  BY <1>2, <1>3, <1>4 DEF LookUp

LEMMA ArriveKeeps ==
  ASSUME RequestInv, NEW i \in DOMAIN requests, Arrive(i)
  PROVE  RequestInv'
<1>1. UNCHANGED <<now, calls, records, rows>> /\ Evolves /\ now \in Time
  BY NothingMoves DEF Arrive, RequestInv
<1>2. Asking(i).client \in Client
  BY Askings DEF RequestInv, RequestsOK
<1>3. RequestsOK'
  <2>1. CASE Answers(i, 429, NoRow)
    <3>1. 429 \in Status /\ Told(i[1], 429, NoRow)'
      BY DEF Status, Told
    <3> QED
      BY <1>1, <2>1, <3>1, AnswersKeep
  <2>2. CASE LookUp(i)
    BY <1>1, <2>2, LookUpKeeps
  <2> QED
    BY <2>1, <2>2 DEF Arrive
<1>4. LimiterOK(windows)'
  <2>1. CASE windows' = Pruned /\ UNCHANGED admitted
    BY <1>1, <2>1, RefusalKeeps
  <2>2. CASE ~Refused(i) /\ Admit(i)
    BY <1>1, <1>2, <2>2, AdmissionKeeps
  <2> QED
    BY <2>1, <2>2 DEF Arrive
<1>5. lastPrune' \in Int
  BY <1>1, Constants DEF Arrive, RequestInv
<1> QED
  BY <1>1, <1>3, <1>4, <1>5, StoreStays, TruthStays DEF RequestInv

(* The answer of a handler that leaves the store alone or creates a row.   *)
LEMMA HandlerKeeps ==
  ASSUME RequestInv, NEW i \in DOMAIN requests,
         UNCHANGED <<now, calls, windows, lastPrune, admitted, records>>,
         Creates(i) \/ UNCHANGED rows, RequestsOK'
  PROVE  RequestInv'
<1>1. Evolves /\ RowsOK' /\ RecordsOK'
  BY CreatesKeep, NothingMoves, StoreStays
<1>2. LimiterOK(windows)'
  BY DEF RequestInv, LimiterOK
<1> QED
  BY <1>1, <1>2, TruthStays DEF RequestInv

LEMMA FailureKeeps ==
  ASSUME RequestInv, NEW i \in DOMAIN requests, NEW status \in {400, 422, 500}, Evolves,
         Answers(i, status, NoRow)
  PROVE  RequestsOK'
<1>1. status \in Status /\ Told(i[1], status, NoRow)'
  BY DEF Status, Told
<1> QED
  BY <1>1, AnswersKeep

(* The answer of a handler that has created a row.                         *)
LEMMA CreatedIsTrue ==
  ASSUME RequestInv, NEW i \in DOMAIN requests, Creates(i), UNCHANGED <<now, calls, records>>
  PROVE  /\ Evolves /\ i \in Id /\ i[1] \in Call /\ 201 \in Status
         /\ Told(i[1], 201, i)'
<1>1. i \in Id /\ i[1] \in Call
  BY Askings DEF RequestInv, RequestsOK
<1>2. Evolves /\ i \in DOMAIN rows' /\ rows'[i].asked = calls[i[1]].asked
  BY CreatesKeep DEF Asking
<1> QED
  BY <1>1, <1>2 DEF Told, Status

LEMMA OutfitKeeps ==
  ASSUME RequestInv, NEW i \in DOMAIN requests, CreateOutfit(i)
  PROVE  RequestInv'
<1>1. UNCHANGED <<now, calls, windows, lastPrune, admitted, records>>
      /\ Asking(i).route # "transactions"
  BY DEF CreateOutfit
<1>2. CASE Creates(i) /\ Answers(i, 201, i)
  BY <1>1, <1>2, CreatedIsTrue, AnswersKeep, HandlerKeeps
<1>3. CASE /\ Creates(i) /\ Asking(i).key # NoKey
           /\ requests' = [requests EXCEPT ![i] =
                             [@ EXCEPT !.at = "put", !.status = 201, !.row = i]]
  <2> PICK r : r = requests[i]
    OBVIOUS
  <2> PICK s : s = [r EXCEPT !.at = "put", !.status = 201, !.row = i]
    OBVIOUS
  <2>1. Evolves /\ i \in Id /\ 201 \in Status /\ Told(i[1], 201, i)'
    BY <1>1, <1>3, CreatedIsTrue
  <2>2. r \in RequestShape /\ RequestOK(i, r)
    BY DEF RequestInv, RequestsOK, RequestOK
  <2>3. /\ s \in RequestShape /\ s.at = "put" /\ s.looked = r.looked
        /\ s.status = 201 /\ s.row = i
    BY <2>1, <2>2 DEF RequestShape
  <2>4. Keyed(Asking(i))'
    BY <1>1, <1>3 DEF Keyed, Asking
  <2>5. RequestOK(i, r)'
    BY <2>1, <2>2, RequestStays
  <2>6. RequestOK(i, s)'
    BY <2>1, <2>3, <2>4, <2>5 DEF RequestOK
  <2>7. /\ DOMAIN requests' = DOMAIN requests /\ requests'[i] = s
        /\ \A j \in DOMAIN requests' : j # i => requests'[j] = requests[j]
    BY <1>3
  <2>8. RequestsOK'
    BY <2>1, <2>6, <2>7, RequestsKeep
  <2> QED
    BY <1>1, <1>3, <2>8, HandlerKeeps
<1>4. CASE Fails(i)
  <2>1. Evolves /\ UNCHANGED rows
    BY <1>1, <1>4, NothingMoves DEF Fails
  <2> QED
    BY <1>1, <1>4, <2>1, FailureKeeps, HandlerKeeps DEF Fails
<1> QED
  BY <1>2, <1>3, <1>4 DEF CreateOutfit

LEMMA TransactionKeeps ==
  ASSUME RequestInv, NEW i \in DOMAIN requests, CreateTransaction(i)
  PROVE  RequestInv'
<1>1. UNCHANGED <<now, calls, windows, lastPrune, admitted, records>>
  BY DEF CreateTransaction
<1>2. CASE Creates(i) /\ Answers(i, 201, i)
  BY <1>1, <1>2, CreatedIsTrue, AnswersKeep, HandlerKeeps
<1>3. CASE Creates(i) /\ Answers(i, 500, NoRow)
  BY <1>1, <1>3, CreatedIsTrue, FailureKeeps, HandlerKeeps
<1>4. CASE UNCHANGED rows /\ \E status \in {400, 422, 500} : Answers(i, status, NoRow)
  <2>1. Evolves
    BY <1>1, <1>4, NothingMoves
  <2> QED
    BY <1>1, <1>4, <2>1, FailureKeeps, HandlerKeeps
<1>5. ASSUME NEW x \in DOMAIN rows, rows[x].asked = Asking(i), Asking(i).key # NoKey,
             UNCHANGED rows, Answers(i, 200, x)
      PROVE  RequestInv'
  <2>1. Evolves
    BY <1>1, <1>5, NothingMoves
  <2>2. x \in Id \cup {NoRow} /\ 200 \in Status
    BY DEF RequestInv, RowsOK, Status
  <2>3. Told(i[1], 200, x)'
    BY <1>1, <1>5 DEF Told, Asking
  <2> QED
    BY <1>1, <1>5, <2>1, <2>2, <2>3, AnswersKeep, HandlerKeeps
<1> QED
  BY <1>2, <1>3, <1>4, <1>5 DEF CreateTransaction, Fails

(* The answer is stored, over an older one and with or without a sweep.    *)
LEMMA PutKeeps ==
  ASSUME RequestInv, NEW i \in DOMAIN requests, Put(i)
  PROVE  RequestInv'
<1> PICK k : k = RecordKey(Asking(i))
  OBVIOUS
<1>1. /\ requests[i].at = "put" /\ Answers(i, 201, i)
      /\ UNCHANGED <<now, calls, windows, lastPrune, admitted>>
      /\ now \in Time /\ now \in Nat /\ now <= now /\ TTL \in Nat
  BY Constants DEF Put, RequestInv
<1>2. /\ i \in Id /\ i[1] \in Call /\ i \in DOMAIN rows /\ rows[i].asked = Asking(i)
      /\ k \in Route \X Key /\ i \in Id \cup {NoRow} /\ 201 \in Status
  <2>1. RequestOK(i, requests[i]) /\ i \in Id
    BY DEF RequestInv, RequestsOK
  <2>2. Keyed(Asking(i)) /\ Told(i[1], 201, i)
    BY <1>1, <2>1 DEF RequestOK
  <2> QED
    BY <2>1, <2>2, Askings, KeyedAsked DEF Told, RequestInv, Asking, Status
<1>3. CASE UNCHANGED <<records, rows>>
  <2>1. Evolves
    BY <1>1, <1>3, NothingMoves
  <2>2. Told(i[1], 201, i)'
    BY <1>1, <1>2, <1>3 DEF Told, Asking
  <2> QED
    BY <1>1, <1>2, <1>3, <2>1, <2>2, AnswersKeep, HandlerKeeps
<1>4. ASSUME NEW kept \in {records, Swept},
             records' = [x \in DOMAIN kept \cup {k} |->
                           IF x = k THEN [row |-> i, createdAt |-> now] ELSE kept[x]],
             rows' = [rows EXCEPT ![i].recorded = now]
      PROVE  RequestInv'
  <2>1. /\ DOMAIN rows' = DOMAIN rows /\ rows[i] \in RowShape /\ rows'[i].recorded = now
        /\ rows'[i].asked = rows[i].asked /\ rows'[i].looked = rows[i].looked
        /\ rows'[i] \in RowShape
        /\ \A j \in DOMAIN rows : j # i => rows'[j] = rows[j]
    <3>1. rows[i] \in RowShape
      BY <1>2 DEF RequestInv, RowsOK, RowOK
    <3> QED
      BY <1>1, <1>2, <1>4, <3>1 DEF RowShape
  <2>2. Evolves
    BY <1>1, <2>1 DEF Evolves
  <2>3. RequestsOK'
    <3>1. Told(i[1], 201, i)'
      BY <1>1, <1>2, <2>1 DEF Told, Asking
    <3> QED
      BY <1>1, <1>2, <2>2, <3>1, AnswersKeep
  <2>4. /\ DOMAIN kept \subseteq DOMAIN records
        /\ \A x \in DOMAIN kept : kept[x] = records[x]
        /\ \A x \in DOMAIN records \ DOMAIN kept : ~(now - records[x].createdAt <= TTL)
    BY <1>4 DEF Swept
  <2>5. RecordsOK'
    <3> SUFFICES ASSUME NEW x \in DOMAIN records' PROVE x \in Route \X Key /\ RecordOK(x, records[x])'
      BY DEF RecordsOK
    <3> PICK y : y = records'[x]
      OBVIOUS
    <3>1. x \in Route \X Key /\ RecordOK(x, y)
      <4>1. CASE x = k
        <5>1. y = [row |-> i, createdAt |-> now]
          BY <1>4, <4>1
        <5>2. y \in [row : Id, createdAt : Time] /\ y.row = i /\ y.createdAt = now
          BY <1>1, <1>2, <5>1
        <5> QED
          BY <1>1, <1>2, <4>1, <5>2 DEF RecordOK
      <4>2. CASE x # k
        BY <1>4, <2>4, <4>2 DEF RequestInv, RecordsOK
      <4> QED
        BY <4>1, <4>2
    <3> QED
      BY <1>1, <2>2, <3>1 DEF RecordOK, RecordKey, Evolves
  <2>6. RowsOK'
    <3> SUFFICES ASSUME NEW j \in DOMAIN rows' PROVE j \in Id /\ RowOK(j, rows[j])'
      BY DEF RowsOK
    <3> PICK x, y, q : x = rows[j] /\ y = rows'[j] /\ q = RecordKey(rows[j].asked)
      OBVIOUS
    <3>1. /\ j \in Id /\ RowOK(j, x) /\ y \in RowShape /\ y.asked = x.asked
          /\ y.looked = x.looked
          /\ y.recorded = x.recorded \/ (y.recorded = now /\ q = k)
      BY <1>2, <2>1 DEF RequestInv, RowsOK, RowOK
    <3>2. LookedOK(y.asked, y.looked)'
      <4>1. y.looked \in Time \cup {Never} /\ LookedOK(y.asked, y.looked)
        BY <3>1 DEF RowOK, RowShape
      <4> QED
        BY <2>2, <4>1, LookedStays
    <3>3. Stored(q, y.recorded)'
      <4>1. SUFFICES ASSUME y.recorded # Never, now - y.recorded <= TTL
                     PROVE  /\ y.recorded <= now /\ q \in DOMAIN records'
                            /\ records'[q].createdAt >= y.recorded
        <5>1. y.recorded \in Nat
          BY <3>1, Constants DEF RowShape
        <5> QED
          BY <1>1, <3>1, <4>1, <5>1 DEF Stored, RowOK
      <4>2. y.recorded \in Nat /\ y.recorded <= now
        BY <1>1, <3>1, <4>1, Constants DEF RowShape, RowOK, Stored
      <4>3. CASE q = k
        BY <1>1, <1>4, <4>2, <4>3
      <4>4. CASE q # k
        <5>1. q \in DOMAIN records /\ records[q].createdAt >= y.recorded
          BY <1>1, <3>1, <4>1, <4>2, <4>4 DEF RowOK, Stored
        <5>2. records[q].createdAt \in Nat
          BY <5>1, Constants DEF RequestInv, RecordsOK, RecordOK
        <5>3. now - records[q].createdAt <= TTL
          BY <1>1, <4>1, <4>2, <5>1, <5>2
        <5>4. q \in DOMAIN kept /\ kept[q] = records[q]
          BY <2>4, <5>1, <5>3
        <5> QED
          BY <1>4, <4>2, <4>4, <5>1, <5>4
      <4> QED
        BY <4>3, <4>4
    <3>4. Asking(j)' = Asking(j) /\ RecordKey(y.asked) = q
      BY <1>1, <3>1 DEF Asking, RecordKey
    <3> QED
      BY <3>1, <3>2, <3>3, <3>4 DEF RowOK, LookedOK, Missed, Stored, RecordKey
  <2>7. LimiterOK(windows)'
    BY <1>1 DEF RequestInv, LimiterOK
  <2> QED
    BY <1>1, <2>2, <2>3, <2>5, <2>6, <2>7, TruthStays DEF RequestInv
<1> QED
  BY <1>3, <1>4 DEF Put

LEMMA ForgetKeeps ==
  ASSUME RequestInv, NEW k \in DOMAIN records, Forget(k)
  PROVE  RequestInv'
<1>1. /\ UNCHANGED <<now, calls, requests, windows, lastPrune, admitted>>
      /\ now \in Time /\ now \in Nat /\ now <= now
      /\ DOMAIN records' = DOMAIN records \ {k} /\ DOMAIN rows' = DOMAIN rows
      /\ \A x \in DOMAIN records' : records'[x] = records[x]
  BY Constants DEF Forget, RequestInv, Without
<1>2. ASSUME NEW j \in DOMAIN rows
      PROVE  /\ j \in Id /\ RowOK(j, rows[j]) /\ rows'[j] \in RowShape
             /\ rows'[j].asked = rows[j].asked /\ rows'[j].looked = rows[j].looked
             /\ RecordKey(rows[j].asked) = k => rows'[j].recorded = Never
             /\ RecordKey(rows[j].asked) # k => rows'[j].recorded = rows[j].recorded
  <2>1. rows[j] \in RowShape /\ j \in Id /\ RowOK(j, rows[j])
    BY DEF RequestInv, RowsOK, RowOK
  <2>2. rows'[j] = IF RecordKey(rows[j].asked) = k THEN [rows[j] EXCEPT !.recorded = Never]
                                                   ELSE rows[j]
    BY DEF Forget
  <2> QED
    BY <2>1, <2>2 DEF RowShape
<1>3. Evolves
  BY <1>1, <1>2 DEF Evolves
<1>4. RequestsOK'
  BY <1>1, <1>3, RequestsStay
<1>5. RecordsOK'
  BY <1>1, <1>3 DEF RequestInv, RecordsOK, RecordOK, RecordKey, Evolves
<1>6. RowsOK'
  <2> SUFFICES ASSUME NEW j \in DOMAIN rows' PROVE j \in Id /\ RowOK(j, rows[j])'
    BY DEF RowsOK
  <2> PICK x, y, q : x = rows[j] /\ y = rows'[j] /\ q = RecordKey(rows[j].asked)
    OBVIOUS
  <2>1. /\ j \in Id /\ RowOK(j, x) /\ y \in RowShape /\ y.asked = x.asked /\ y.looked = x.looked
        /\ q = k => y.recorded = Never
        /\ q # k => y.recorded = x.recorded
    BY <1>1, <1>2
  <2>2. LookedOK(y.asked, y.looked)'
    <3>1. y.looked \in Time \cup {Never} /\ LookedOK(y.asked, y.looked)
      BY <2>1 DEF RowOK, RowShape
    <3> QED
      BY <1>3, <3>1, LookedStays
  <2>3. Stored(q, y.recorded)'
    BY <1>1, <2>1 DEF RowOK, Stored
  <2>4. Asking(j)' = Asking(j) /\ RecordKey(y.asked) = q
    BY <1>1, <2>1 DEF Asking, RecordKey
  <2> QED
    BY <2>1, <2>2, <2>3, <2>4 DEF RowOK, LookedOK, Missed, Stored, RecordKey
<1>7. LimiterOK(windows)'
  BY <1>1 DEF RequestInv, LimiterOK
<1> QED
  BY <1>1, <1>3, <1>4, <1>5, <1>6, <1>7, TruthStays DEF RequestInv

LEMMA TickKeeps ==
  ASSUME RequestInv, Tick
  PROVE  RequestInv'
<1>1. /\ now' \in Time /\ now <= now'
      /\ UNCHANGED <<calls, requests, windows, lastPrune, admitted, records, rows>>
  BY Constants DEF RequestInv, Tick, Time
<1>2. Evolves
  BY <1>1 DEF Evolves
<1>3. RequestsOK'
  BY <1>1, <1>2, RequestsStay
<1> QED
  BY <1>1, <1>2, <1>3, StoreStays, TruthStays, TickKeepsLimiter DEF RequestInv

LEMMA VanishKeeps ==
  ASSUME RequestInv, NEW i \in DOMAIN requests, Vanish(i)
  PROVE  RequestInv'
<1>1. /\ UNCHANGED <<now, calls, windows, lastPrune, admitted, records, rows>>
      /\ requests' = Without(requests, i)
  BY DEF Vanish
<1>2. Evolves
  BY <1>1, NothingMoves
<1>3. RequestsOK'
  BY <1>1, <1>2, RequestsStay
<1>4. LimiterOK(windows)'
  BY <1>1 DEF RequestInv, LimiterOK
<1> QED
  BY <1>1, <1>2, <1>3, <1>4, StoreStays, TruthStays DEF RequestInv

LEMMA RequestStep == RequestInv /\ [Next]_vars => RequestInv'
<1> SUFFICES ASSUME RequestInv, [Next]_vars PROVE RequestInv'
  OBVIOUS
<1>1. CASE UNCHANGED vars
  <2>1. UNCHANGED <<now, calls, requests, windows, lastPrune, admitted, records, rows>>
    BY <1>1 DEF vars
  <2>2. Evolves
    BY <2>1, NothingMoves
  <2>3. RequestsOK' /\ LimiterOK(windows)'
    BY <2>1, <2>2, RequestsStay DEF RequestInv, LimiterOK
  <2> QED
    BY <2>1, <2>2, <2>3, StoreStays, TruthStays DEF RequestInv
<1>2. ASSUME NEW c \in Call, Send(c) \/ Hear(c) \/ NetworkError(c)
      PROVE  RequestInv'
  BY <1>2, SendKeeps, HearKeeps, NetworkErrorKeeps
<1>3. ASSUME NEW i \in DOMAIN requests,
             Arrive(i) \/ CreateOutfit(i) \/ CreateTransaction(i) \/ Put(i) \/ Vanish(i)
      PROVE  RequestInv'
  BY <1>3, ArriveKeeps, OutfitKeeps, TransactionKeeps, PutKeeps, VanishKeeps
<1>4. ASSUME NEW k \in DOMAIN records, Forget(k)
      PROVE  RequestInv'
  BY <1>4, ForgetKeeps
<1>5. CASE Tick
  BY <1>5, TickKeeps
<1> QED
  BY <1>1, <1>2, <1>3, <1>4, <1>5 DEF Next

-----------------------------------------------------------------------------
(***************************************************************************)
(* Theorems                                                                *)
(***************************************************************************)

(* The inductive invariant holds in every reachable state, whatever        *)
(* answers are lost and whichever requests are sent again.                 *)
THEOREM RequestInvariant == Spec => []RequestInv
BY RequestInit, RequestStep, PTL DEF Spec

(* Every state is of the declared types: a window never counts more than   *)
(* the limit, no attempt is beyond the client's last.                      *)
THEOREM TypeCorrect == Spec => []TypeOK
<1>1. RequestInv => TypeOK
  <2> SUFFICES ASSUME RequestInv PROVE TypeOK
    OBVIOUS
  <2>1. calls \in [Call -> CallShape]
    BY DEF RequestInv, CallsOK
  <2>2. /\ DOMAIN requests \subseteq Id
        /\ \A i \in DOMAIN requests : requests[i] \in RequestShape
    BY DEF RequestInv, RequestsOK, RequestOK
  <2>3. /\ DOMAIN windows \subseteq Client /\ admitted \in [Client -> Seq(Time)]
        /\ \A k \in DOMAIN windows : windows[k] \in [startedAt : Time, count : 1 .. Limit]
    BY DEF RequestInv, LimiterOK, WindowOK
  <2>4. /\ DOMAIN records \subseteq Route \X Key
        /\ \A k \in DOMAIN records : records[k] \in [row : Id, createdAt : Time]
    BY DEF RequestInv, RecordsOK, RecordOK
  <2>5. DOMAIN rows \subseteq Id /\ \A i \in DOMAIN rows : rows[i] \in RowShape
    BY DEF RequestInv, RowsOK, RowOK
  <2>6. now \in Time /\ lastPrune \in Int
    BY DEF RequestInv
  <2> QED
    BY <2>1, <2>2, <2>3, <2>4, <2>5, <2>6 DEF TypeOK, CallShape, RequestShape, RowShape
<1> QED
  BY <1>1, RequestInvariant, PTL

(* Through retries, replays and evictions, success names a row that was    *)
(* created for what the client asked.                                      *)
THEOREM ClientsAreToldTheTruth == Spec => []AnswersAreTrue
BY RequestInvariant, PTL DEF RequestInv

(* A duplicate under a key needs a look that came too early, an answer     *)
(* that had expired, or no look at all.                                    *)
THEOREM DuplicatesHaveReason == Spec => []SecondRowHasReason
<1>1. RequestInv => SecondRowHasReason
  BY DEF RequestInv, RowsOK, RowOK, LookedOK, Missed, SecondRowHasReason
<1> QED
  BY <1>1, RequestInvariant, PTL

(* Pruning never lets a client through early, and two windows that meet    *)
(* let through less than twice the limit.                                  *)
THEOREM LimiterHolds == Spec => []LessThanTwiceTheLimit
<1>1. RequestInv => LessThanTwiceTheLimit
  BY DEF RequestInv, LimiterOK, Spaced, LessThanTwiceTheLimit
<1> QED
  BY <1>1, RequestInvariant, PTL

=============================================================================
