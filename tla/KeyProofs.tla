------------------------------ MODULE KeyProofs ------------------------------
(***************************************************************************)
(* Theorems about ApiKeys, for any keys, requests in flight, lifetimes and *)
(* width of a Duration: its state is well typed, a key issued over HTTP    *)
(* never gets more than the longest lifetime, its expiry is the one last   *)
(* asked for or was overwritten by an older rename, and a request is only  *)
(* served on a key that was good when it was read.                         *)
(*                                                                         *)
(* An update and a request act on a row they read before: what each call   *)
(* in flight may still rely on is part of the invariant (CallOK).          *)
(***************************************************************************)
EXTENDS ApiKeys, TLAPS

-----------------------------------------------------------------------------
(***************************************************************************)
(* The inductive invariant                                                 *)
(***************************************************************************)

(* An update writes an expiry that its key may have, and one that was read *)
(* since the last change, or knows that it was not.  An expiry asked for   *)
(* is the one that was asked for, unless it is unfit.                      *)
UpdateOK(c) ==
  c.at = "update" =>
    /\ keys[c.key] # Absent
    /\ (Exists(c.key) /\ keys[c.key].made = "http") => c.expires <= now + MaxLife
    /\ (c.asked /\ ~c.unfit) => c.expires = c.wants
    /\ (~c.asked /\ ~c.raced /\ Exists(c.key) /\ c.key \notin undone \cup unfit)
         => c.expires = wanted[c.key]

(* A request that has passed the check of its key came before the key was  *)
(* withdrawn, and holds the scopes the key was issued with.                *)
RequestOK(c) ==
  /\ c.at = "arrived" => (c.dead => c.key \in dead)
  /\ c.at \in {"known", "served"} =>
       /\ ~c.dead
       /\ keys[c.key] # Absent
       /\ Exists(c.key) => c.granted = keys[c.key].scopes
  /\ c.at = "served" => c.needs \subseteq c.granted

CallsOK == \A p \in Process : UpdateOK(call[p]) /\ RequestOK(call[p])

(* What was withdrawn was there, and is not usable again.                  *)
DeadAreUnusable == \A k \in dead : keys[k] # Absent /\ (Exists(k) => keys[k].revoked)

KeyInv ==
  /\ TypeOK
  /\ HttpKeysExpire
  /\ ExpiryAsAsked
  /\ DeadAreUnusable
  /\ CallsOK

-----------------------------------------------------------------------------
(***************************************************************************)
(* Rows, calls and durations                                               *)
(***************************************************************************)

LEMMA RowShape ==
  /\ Absent \notin Row /\ Deleted \notin Row /\ Absent # Deleted
BY DEF Absent, Deleted, Row

UpdateCalls == [at : {"update"}, key : Key, expires : Expiry, asked : BOOLEAN, raced : BOOLEAN,
                wants : Int, unfit : BOOLEAN]

ArrivedCalls == [at : {"arrived"}, key : Key, needs : SUBSET Scopes, dead : BOOLEAN]

KnownCalls == [at : {"known", "served"}, key : Key, needs : SUBSET Scopes, dead : BOOLEAN,
               granted : SUBSET Scopes, since : 0 .. MaxClock, noted : BOOLEAN]

(* What the position of a call says about its fields.                      *)
LEMMA CallShape ==
  ASSUME NEW c \in Calls
  PROVE  /\ c.at = "update" => c \in UpdateCalls
         /\ c.at = "arrived" => c \in ArrivedCalls
         /\ c.at \in {"known", "served"} => c \in KnownCalls
         /\ c # Idle => c.at \in {"update", "arrived", "known", "served"}
BY DEF Calls, Idle, UpdateCalls, ArrivedCalls, KnownCalls

LEMMA CallsAre == Calls = {Idle} \cup UpdateCalls \cup ArrivedCalls \cup KnownCalls
BY DEF Calls, UpdateCalls, ArrivedCalls, KnownCalls

LEMMA IdleIsOK == Idle \in Calls /\ UpdateOK(Idle) /\ RequestOK(Idle)
BY DEF Calls, Idle, UpdateOK, RequestOK

(* A product of hours and ticks wraps into the lower half of a Duration at *)
(* worst.                                                                  *)
LEMMA LastingBounds ==
  ASSUME NEW hours \in Hours
  PROVE  Lasting(hours) \in Int /\ -Width <= Lasting(hours)
<1> DEFINE x == hours * Hour + Width \div 2
<1>1. hours * Hour \in Int
  BY KeyConstants
<1>2. Width \div 2 \in Int /\ 0 <= Width \div 2 /\ Width \div 2 <= Width
  BY KeyConstants
<1>3. x \in Int
  BY <1>1, <1>2
<1> HIDE DEF x
<1>4. x % Width \in Int /\ 0 <= x % Width
  BY <1>3, KeyConstants
<1>5. Lasting(hours) = (x % Width) - Width \div 2
  BY DEF Lasting, x
<1> QED
  BY <1>2, <1>4, <1>5, KeyConstants

(* A lifetime that a key may have does not wrap.                           *)
LEMMA FitLivesDoNotWrap ==
  ASSUME NEW hours \in Hours, ~Unfit(hours)
  PROVE  Lasting(hours) = hours * Hour
<1> DEFINE half == Width \div 2
           life == hours * Hour
<1>1. life \in Int /\ 1 <= life /\ life <= MaxLife
  BY KeyConstants DEF Unfit
<1>2. half \in Int /\ 0 <= half /\ 2 * half <= Width /\ MaxLife < half
  BY KeyConstants
<1>3. Lasting(hours) = ((life + half) % Width) - half
  BY DEF Lasting
<1>6. life = hours * Hour
  OBVIOUS
<1> HIDE DEF half, life
<1>4. life + half \in Nat /\ life + half < Width
  BY <1>1, <1>2, KeyConstants
<1>5. (life + half) % Width = life + half
  BY <1>4, KeyConstants
<1> QED
  BY <1>1, <1>2, <1>3, <1>5, <1>6

(* An expiry of at most the longest lifetime from now is one a row can hold. *)
LEMMA ExpiryInRange ==
  ASSUME NEW at \in 0 .. MaxClock, NEW life \in Int, -Width <= life, life <= MaxLife
  PROVE  at + life \in Expiry
BY KeyConstants DEF Expiry, Never

LEMMA KeyInit == Init => KeyInv
<1> SUFFICES ASSUME Init PROVE KeyInv
  OBVIOUS
<1>1. /\ \A k \in Key : keys[k] = Absent /\ ~Exists(k) /\ wanted[k] = Never
      /\ \A p \in Process : call[p] = Idle
      /\ undone = {} /\ unfit = {} /\ dead = {} /\ now = 1
  BY RowShape DEF Init, Exists
<1>2. Never \in Expiry /\ Never \in Int /\ 1 \in 0 .. MaxClock
  BY KeyConstants DEF Expiry, Never
<1>3. TypeOK
  BY <1>1, <1>2, IdleIsOK DEF Init, TypeOK
<1> QED
  BY <1>1, <1>3, IdleIsOK DEF KeyInv, HttpKeysExpire, ExpiryAsAsked, DeadAreUnusable, CallsOK

-----------------------------------------------------------------------------
(***************************************************************************)
(* Steps                                                                   *)
(***************************************************************************)

(* Steps that only move a call on.                                         *)
LEMMA CallMoves ==
  ASSUME KeyInv, NEW p \in Process, NEW c \in Calls, UpdateOK(c), RequestOK(c),
         call' = [call EXCEPT ![p] = c],
         UNCHANGED <<store, now, keys, wanted, undone, unfit, dead>>
  PROVE  KeyInv'
<1>1. \A q \in Process : call'[q] = IF q = p THEN c ELSE call[q]
  BY DEF KeyInv, TypeOK
<1>2. TypeOK'
  BY DEF KeyInv, TypeOK
<1>3. CallsOK'
  <2> SUFFICES ASSUME NEW q \in Process PROVE UpdateOK(call[q])' /\ RequestOK(call[q])'
    BY DEF CallsOK
  <2>1. UpdateOK(call'[q]) /\ RequestOK(call'[q])
    BY <1>1 DEF KeyInv, CallsOK
  <2> QED
    BY <2>1 DEF UpdateOK, RequestOK, Exists
<1> QED
  BY <1>2, <1>3 DEF KeyInv, HttpKeysExpire, ExpiryAsAsked, DeadAreUnusable, Exists

(* Steps that change rows without giving one a new expiry, scopes or life. *)
LEMMA RowsAge ==
  ASSUME KeyInv, keys' \in [Key -> Row \cup {Absent, Deleted}],
         \A k \in Key :
           \/ keys'[k] = keys[k]
           \/ Exists(k) /\ keys'[k] = Deleted
           \/ /\ Exists(k) /\ keys'[k] \in Row
              /\ keys'[k].expires = keys[k].expires /\ keys'[k].made = keys[k].made
              /\ keys'[k].scopes = keys[k].scopes
              /\ keys[k].revoked => keys'[k].revoked,
         dead \subseteq dead', dead' \subseteq Key,
         \A k \in dead' \ dead : keys'[k] # Absent /\ (keys'[k] \in Row => keys'[k].revoked),
         now' \in 0 .. MaxClock, now <= now',
         call' \in [Process -> Calls],
         \A p \in Process : UpdateOK(call'[p]) /\ RequestOK(call'[p]),
         UNCHANGED <<store, wanted, undone, unfit>>
  PROVE  KeyInv'
<1>1. \A k \in Key :
        /\ keys'[k] = Absent <=> keys[k] = Absent
        /\ Exists(k)' => /\ Exists(k)
                         /\ keys'[k].expires = keys[k].expires
                         /\ keys'[k].made = keys[k].made
                         /\ keys'[k].scopes = keys[k].scopes
                         /\ keys[k].revoked => keys'[k].revoked
  BY RowShape DEF Exists
<1>2. TypeOK'
  BY DEF KeyInv, TypeOK
<1>3. now \in Int /\ now' \in Int /\ now <= now' /\ MaxLife \in Int
  BY KeyConstants DEF KeyInv, TypeOK
<1>4. HttpKeysExpire'
  <2> SUFFICES ASSUME NEW k \in Key, Exists(k)', keys'[k].made = "http"
               PROVE  keys'[k].expires <= now' + MaxLife
    BY DEF HttpKeysExpire
  <2>1. keys[k].expires <= now + MaxLife /\ keys[k].expires \in Int
    BY <1>1 DEF KeyInv, HttpKeysExpire, Exists, Row, Expiry
  <2> QED
    BY <1>1, <1>3, <2>1
<1>5. ExpiryAsAsked'
  BY <1>1 DEF KeyInv, ExpiryAsAsked
<1>6. DeadAreUnusable'
  <2> SUFFICES ASSUME NEW k \in dead'
               PROVE  keys'[k] # Absent /\ (Exists(k)' => keys'[k].revoked)
    BY DEF DeadAreUnusable
  <2>1. CASE k \in dead
    BY <1>1, <2>1 DEF KeyInv, DeadAreUnusable
  <2>2. CASE k \notin dead
    BY <2>2 DEF Exists
  <2> QED
    BY <2>1, <2>2
<1>7. CallsOK'
  <2> SUFFICES ASSUME NEW q \in Process PROVE UpdateOK(call[q])' /\ RequestOK(call[q])'
    BY DEF CallsOK
  <2>1. call'[q] \in Calls /\ UpdateOK(call'[q]) /\ RequestOK(call'[q])
    OBVIOUS
  <2>2. UpdateOK(call[q])'
    <3> SUFFICES ASSUME call'[q].at = "update" PROVE UpdateOK(call[q])'
      BY DEF UpdateOK
    <3>1. call'[q].key \in Key /\ call'[q].expires \in Int
      BY <2>1, CallShape DEF UpdateCalls, Expiry
    <3> QED
      BY <1>1, <1>3, <2>1, <3>1 DEF UpdateOK
  <2>3. RequestOK(call[q])'
    <3>1. call'[q].at \in {"known", "served"} => call'[q].key \in Key
      BY <2>1, CallShape DEF KnownCalls
    <3> QED
      BY <1>1, <2>1, <3>1 DEF RequestOK
  <2> QED
    BY <2>2, <2>3
<1> QED
  BY <1>2, <1>4, <1>5, <1>6, <1>7 DEF KeyInv

(* A new key is good for as long as was asked.                             *)
LEMMA CreateKeeps ==
  ASSUME KeyInv, NEW k \in Key, NEW expires \in Expiry, NEW role \in Role,
         NEW made \in {"command", "http"}, NEW wants \in Int, NEW isUnfit \in BOOLEAN,
         Create(k, expires, role, made, wants, isUnfit), isUnfit \/ expires = wants,
         made = "http" => expires <= now + MaxLife
  PROVE  KeyInv'
<1> DEFINE row == [expires |-> expires, revoked |-> FALSE, scopes |-> role,
                   made |-> made, used |-> 0]
<1>1. /\ keys[k] = Absent
      /\ keys' = [keys EXCEPT ![k] = row] /\ wanted' = [wanted EXCEPT ![k] = wants]
      /\ unfit' = IF isUnfit THEN unfit \cup {k} ELSE unfit
      /\ UNCHANGED <<store, now, call, undone, dead>>
  BY DEF Create
<1>2. row \in Row /\ row.expires = expires /\ row.made = made
  BY KeyConstants DEF Row, Scopes
<1> HIDE DEF row
<1>3. \A j \in Key :
        /\ keys'[j] = IF j = k THEN row ELSE keys[j]
        /\ wanted'[j] = IF j = k THEN wants ELSE wanted[j]
        /\ j # k => (Exists(j)' <=> Exists(j))
  BY <1>1 DEF KeyInv, TypeOK, Exists
<1>4. TypeOK'
  BY <1>1, <1>2 DEF KeyInv, TypeOK
<1>5. HttpKeysExpire' /\ ExpiryAsAsked'
  BY <1>1, <1>2, <1>3 DEF KeyInv, HttpKeysExpire, ExpiryAsAsked
<1>6. DeadAreUnusable'
  <2>1. k \notin dead
    BY <1>1 DEF KeyInv, DeadAreUnusable
  <2> QED
    BY <1>1, <1>3, <2>1 DEF KeyInv, TypeOK, DeadAreUnusable
<1>7. CallsOK'
  <2> SUFFICES ASSUME NEW q \in Process PROVE UpdateOK(call[q])' /\ RequestOK(call[q])'
    BY DEF CallsOK
  <2>1. call[q] \in Calls /\ UpdateOK(call[q]) /\ RequestOK(call[q])
    BY DEF KeyInv, TypeOK, CallsOK
  <2>2. call[q].at \in {"update", "known", "served"} => call[q].key \in Key \ {k}
    BY <1>1, <2>1, CallShape DEF UpdateOK, RequestOK, UpdateCalls, KnownCalls
  <2> QED
    BY <1>1, <1>3, <2>1, <2>2 DEF UpdateOK, RequestOK
<1> QED
  BY <1>4, <1>5, <1>6, <1>7 DEF KeyInv

(* The later statement of an update: what others read before is out of     *)
(* date if this one was asked for a new expiry.                            *)
LEMMA WriteKeeps ==
  ASSUME KeyInv, NEW p \in Process, UpdateWrites(p)
  PROVE  KeyInv'
<1> DEFINE k == call[p].key
           c == call[p]
           row == [keys[k] EXCEPT !.expires = c.expires]
<1>1. /\ c \in UpdateCalls /\ c.at = "update" /\ Exists(k) /\ k \in Key
      /\ c.expires \in Expiry /\ c.asked \in BOOLEAN /\ c.raced \in BOOLEAN
      /\ c.wants \in Int /\ c.unfit \in BOOLEAN /\ UpdateOK(c)
  BY CallShape DEF UpdateWrites, KeyInv, TypeOK, CallsOK, UpdateCalls
<1>2. /\ keys' = [keys EXCEPT ![k].expires = c.expires]
      /\ wanted' = [wanted EXCEPT ![k] = IF c.asked THEN c.wants ELSE @]
      /\ undone' = IF c.asked THEN undone \ {k}
                   ELSE IF c.raced THEN undone \cup {k}
                   ELSE undone
      /\ unfit' = IF ~c.asked THEN unfit
                  ELSE IF c.unfit THEN unfit \cup {k}
                  ELSE unfit \ {k}
      /\ call' = Raced(p, k)
      /\ UNCHANGED <<store, now, dead>>
  BY DEF UpdateWrites, Settle
<1>3. /\ row \in Row /\ row.expires = c.expires
      /\ row.revoked = keys[k].revoked /\ row.made = keys[k].made
      /\ row.scopes = keys[k].scopes
  BY <1>1 DEF Row, Exists
<1> HIDE DEF row
<1>4. \A j \in Key :
        /\ keys'[j] = IF j = k THEN row ELSE keys[j]
        /\ wanted'[j] = IF j = k /\ c.asked THEN c.wants ELSE wanted[j]
        /\ Exists(j)' <=> Exists(j)
        /\ keys'[j] = Absent <=> keys[j] = Absent
        /\ Exists(j) => keys'[j].made = keys[j].made /\ keys'[j].scopes = keys[j].scopes
                        /\ keys'[j].revoked = keys[j].revoked
  BY <1>1, <1>2, <1>3, RowShape DEF KeyInv, TypeOK, Exists, row
<1>5. \A q \in Process :
        \/ call'[q] = Idle
        \/ /\ c.asked /\ call[q].at = "update" /\ call[q].key = k
           /\ call'[q] = [call[q] EXCEPT !.raced = TRUE]
        \/ /\ ~(c.asked /\ call[q].at = "update" /\ call[q].key = k)
           /\ call'[q] = call[q]
  BY <1>2 DEF Raced
<1>6. call' \in [Process -> Calls]
  <2>1. \A q \in Process : call'[q] \in Calls
    <3> SUFFICES ASSUME NEW q \in Process PROVE call'[q] \in Calls
      OBVIOUS
    <3>1. call[q] \in Calls
      BY DEF KeyInv, TypeOK
    <3>2. CASE call[q].at = "update" /\ call'[q] = [call[q] EXCEPT !.raced = TRUE]
      BY <3>1, <3>2, CallShape, CallsAre DEF UpdateCalls
    <3> QED
      BY <1>5, <3>1, <3>2, IdleIsOK
  <2> QED
    BY <1>2, <2>1 DEF Raced
<1>7. TypeOK'
  <2>1. keys' \in [Key -> Row \cup {Absent, Deleted}]
    BY <1>1, <1>2, <1>3 DEF KeyInv, TypeOK, row
  <2>2. wanted' \in [Key -> Int] /\ undone' \subseteq Key /\ unfit' \subseteq Key
    BY <1>1, <1>2 DEF KeyInv, TypeOK
  <2> QED
    BY <1>2, <1>6, <2>1, <2>2 DEF KeyInv, TypeOK
<1>8. HttpKeysExpire'
  <2> SUFFICES ASSUME NEW j \in Key, Exists(j)', keys'[j].made = "http"
               PROVE  keys'[j].expires <= now + MaxLife
    BY <1>2 DEF HttpKeysExpire
  <2>1. CASE j = k
    BY <1>1, <1>3, <1>4, <2>1 DEF UpdateOK
  <2>2. CASE j # k
    BY <1>4, <2>2 DEF KeyInv, HttpKeysExpire
  <2> QED
    BY <2>1, <2>2
<1>9. ExpiryAsAsked'
  <2> SUFFICES ASSUME NEW j \in Key, Exists(j)', j \notin undone' \cup unfit'
               PROVE  keys'[j].expires = wanted'[j]
    BY DEF ExpiryAsAsked
  <2>1. CASE j = k
    BY <1>1, <1>2, <1>3, <1>4, <2>1 DEF UpdateOK
  <2>2. CASE j # k
    BY <1>2, <1>4, <2>2 DEF KeyInv, ExpiryAsAsked
  <2> QED
    BY <2>1, <2>2
<1>10. DeadAreUnusable'
  BY <1>2, <1>4 DEF KeyInv, TypeOK, DeadAreUnusable
<1>11. CallsOK'
  <2> SUFFICES ASSUME NEW q \in Process PROVE UpdateOK(call[q])' /\ RequestOK(call[q])'
    BY DEF CallsOK
  <2>1. call[q] \in Calls /\ UpdateOK(call[q]) /\ RequestOK(call[q])
    BY DEF KeyInv, TypeOK, CallsOK
  <2>2. CASE call'[q] = Idle
    BY <2>2 DEF Idle, UpdateOK, RequestOK
  <2>3. CASE /\ c.asked /\ call[q].at = "update" /\ call[q].key = k
             /\ call'[q] = [call[q] EXCEPT !.raced = TRUE]
    <3>1. call[q] \in UpdateCalls
      BY <2>1, <2>3, CallShape
    <3>2. /\ call'[q].at = "update" /\ call'[q].key = k /\ call'[q].raced
          /\ call'[q].expires = call[q].expires
          /\ call'[q].wants = call[q].wants /\ call'[q].unfit = call[q].unfit
          /\ call'[q].asked = call[q].asked
      BY <2>3, <3>1 DEF UpdateCalls
    <3>3. UpdateOK(call[q])'
      BY <1>1, <1>2, <1>4, <2>1, <2>3, <3>2 DEF UpdateOK
    <3>4. RequestOK(call[q])'
      BY <3>2 DEF RequestOK
    <3> QED
      BY <3>3, <3>4
  <2>4. CASE /\ ~(c.asked /\ call[q].at = "update" /\ call[q].key = k)
             /\ call'[q] = call[q]
    <3>1. call[q].at \in {"update", "known", "served"} => call[q].key \in Key
      BY <2>1, CallShape DEF UpdateCalls, KnownCalls
    <3>2. UpdateOK(call[q])'
      <4> SUFFICES ASSUME call[q].at = "update" PROVE UpdateOK(call[q])'
        BY <2>4 DEF UpdateOK
      <4>1. call[q].key \notin undone' \cup unfit'
              => call[q].key \notin undone \cup unfit
        BY <1>2, <2>4
      <4>2. wanted'[call[q].key] = wanted[call[q].key]
        BY <1>4, <2>4, <3>1
      <4>3. CASE call[q].key = k
        BY <1>1, <1>2, <1>3, <1>4, <2>1, <2>4, <4>1, <4>2, <4>3 DEF UpdateOK
      <4>4. CASE call[q].key # k
        BY <1>2, <1>4, <2>1, <2>4, <3>1, <4>1, <4>2, <4>4 DEF UpdateOK
      <4> QED
        BY <4>3, <4>4
    <3>3. RequestOK(call[q])'
      BY <1>2, <1>4, <2>1, <2>4, <3>1 DEF RequestOK
    <3> QED
      BY <3>2, <3>3
  <2> QED
    BY <1>5, <2>2, <2>3, <2>4
<1> QED
  BY <1>7, <1>8, <1>9, <1>10, <1>11 DEF KeyInv

LEMMA IssueKeeps ==
  ASSUME KeyInv, NEW k \in Key, NEW role \in Role,
         \/ \E hours \in Hours : Issue(k, hours, role)
         \/ \E expires \in {now + MaxLife, Never} : CommandIssue(k, expires, role)
  PROVE  KeyInv'
<1>1. now \in 0 .. MaxClock /\ MaxLife \in Nat
  BY KeyConstants DEF KeyInv, TypeOK
<1>2. ASSUME NEW hours \in Hours, Issue(k, hours, role) PROVE KeyInv'
  <2>1. now + Lasting(hours) \in Expiry /\ now + Lasting(hours) <= now + MaxLife
    BY <1>1, <1>2, LastingBounds, ExpiryInRange DEF Issue
  <2>2. now + hours * Hour \in Int /\ Unfit(hours) \in BOOLEAN
    BY <1>1, KeyConstants DEF Unfit
  <2>3. Unfit(hours) \/ now + Lasting(hours) = now + hours * Hour
    BY FitLivesDoNotWrap
  <2> QED
    BY <1>2, <2>1, <2>2, <2>3, CreateKeeps DEF Issue
<1>3. ASSUME NEW expires \in {now + MaxLife, Never}, CommandIssue(k, expires, role)
      PROVE  KeyInv'
  <2>1. expires \in Expiry /\ expires \in Int
    BY <1>1, KeyConstants, ExpiryInRange DEF Expiry, Never
  <2> QED
    BY <1>3, <2>1, CreateKeeps DEF CommandIssue
<1> QED
  BY <1>2, <1>3

LEMMA UpdateKeeps ==
  ASSUME KeyInv, NEW p \in Process, Update(p)
  PROVE  KeyInv'
<1>1. now \in 0 .. MaxClock
  BY DEF KeyInv, TypeOK
<1>2. ASSUME NEW k \in Key, NEW hours \in Hours, UpdateReads(p, k, hours)
      PROVE  KeyInv'
  <2> DEFINE c == [at |-> "update", key |-> k, expires |-> now + Lasting(hours),
                   asked |-> TRUE, raced |-> FALSE,
                   wants |-> now + hours * Hour, unfit |-> Unfit(hours)]
  <2>1. /\ now + Lasting(hours) \in Expiry /\ now + Lasting(hours) <= now + MaxLife
        /\ keys[k] # Absent
    <3>1. Lasting(hours) <= MaxLife /\ keys[k] # Absent
      BY <1>2, RowShape DEF UpdateReads, Exists
    <3>2. Lasting(hours) \in Int /\ -Width <= Lasting(hours)
      BY LastingBounds
    <3>3. now + Lasting(hours) \in Expiry
      BY <1>1, <3>1, <3>2, ExpiryInRange
    <3> QED
      BY <1>1, <3>1, <3>2, <3>3, KeyConstants
  <2>4. now + hours * Hour \in Int /\ Unfit(hours) \in BOOLEAN
    BY <1>1, KeyConstants DEF Unfit
  <2>5. Unfit(hours) \/ now + Lasting(hours) = now + hours * Hour
    BY FitLivesDoNotWrap
  <2>2. c \in Calls
    BY <2>1, <2>4, CallsAre DEF UpdateCalls
  <2>3. UpdateOK(c) /\ RequestOK(c)
    BY <2>1, <2>5 DEF UpdateOK, RequestOK
  <2> QED
    BY <1>2, <2>2, <2>3, CallMoves DEF UpdateReads, Goto
<1>3. ASSUME NEW k \in Key, RenameReads(p, k)
      PROVE  KeyInv'
  <2> DEFINE c == [at |-> "update", key |-> k, expires |-> keys[k].expires,
                   asked |-> FALSE, raced |-> FALSE,
                   wants |-> keys[k].expires, unfit |-> FALSE]
  <2>1. Exists(k) /\ keys[k].expires \in Expiry /\ keys[k].expires \in Int /\ keys[k] # Absent
    BY <1>3, RowShape DEF RenameReads, Exists, Row, Expiry
  <2>2. c \in Calls
    BY <2>1, CallsAre DEF UpdateCalls
  <2>3. UpdateOK(c) /\ RequestOK(c)
    BY <2>1 DEF UpdateOK, RequestOK, KeyInv, HttpKeysExpire, ExpiryAsAsked
  <2> QED
    BY <1>3, <2>2, <2>3, CallMoves DEF RenameReads, Goto
<1> QED
  BY <1>2, <1>3, WriteKeeps DEF Update

LEMMA WithdrawKeeps ==
  ASSUME KeyInv, NEW k \in Key, Withdraw(k)
  PROVE  KeyInv'
<1>1. /\ now \in 0 .. MaxClock /\ now <= now /\ dead \subseteq Key
      /\ call \in [Process -> Calls]
      /\ \A p \in Process : UpdateOK(call[p]) /\ RequestOK(call[p])
  BY DEF KeyInv, TypeOK, CallsOK
<1>2. CASE Revoke(k)
  <2> DEFINE row == [keys[k] EXCEPT !.revoked = TRUE]
  <2>1. /\ row \in Row /\ row.revoked /\ row.expires = keys[k].expires
        /\ row.made = keys[k].made /\ row.scopes = keys[k].scopes
    BY <1>2 DEF Revoke, Exists, Row
  <2>2. keys' = [keys EXCEPT ![k] = row]
    BY <1>2 DEF Revoke
  <2> HIDE DEF row
  <2>3. /\ keys' \in [Key -> Row \cup {Absent, Deleted}]
        /\ \A j \in Key : keys'[j] = IF j = k THEN row ELSE keys[j]
    BY <2>1, <2>2 DEF KeyInv, TypeOK
  <2>4. row # Absent
    BY <2>1, RowShape
  <2> QED
    BY <1>1, <1>2, <2>1, <2>3, <2>4, RowsAge DEF Revoke
<1>3. CASE Delete(k)
  <2>1. /\ keys' \in [Key -> Row \cup {Absent, Deleted}]
        /\ \A j \in Key : keys'[j] = IF j = k THEN Deleted ELSE keys[j]
    BY <1>3 DEF Delete, KeyInv, TypeOK
  <2> QED
    BY <1>1, <1>3, <2>1, RowShape, RowsAge DEF Delete
<1> QED
  BY <1>2, <1>3 DEF Withdraw

LEMMA TouchKeeps ==
  ASSUME KeyInv, NEW p \in Process, Touch(p)
  PROVE  KeyInv'
<1> DEFINE k == call[p].key
<1>1. call[p] \in KnownCalls /\ k \in Key /\ call[p].since \in 0 .. MaxClock
  BY CallShape DEF Touch, KeyInv, TypeOK, KnownCalls
<1>2. PICK at \in call[p].since .. now :
        keys' = IF Exists(k) THEN [keys EXCEPT ![k].used = Noted(keys[k], at)] ELSE keys
  BY DEF Touch
<1>3. at \in 0 .. MaxClock /\ now \in 0 .. MaxClock
  <2>1. now \in 0 .. MaxClock
    BY DEF KeyInv, TypeOK
  <2> QED
    BY <1>1, <2>1, KeyConstants
<1> DEFINE row == [keys[k] EXCEPT !.used = Noted(keys[k], at)]
           c == [call[p] EXCEPT !.noted = TRUE]
<1>4. Exists(k) => /\ row \in Row /\ row.revoked = keys[k].revoked
                   /\ row.expires = keys[k].expires
                   /\ row.made = keys[k].made /\ row.scopes = keys[k].scopes
  BY <1>3 DEF Exists, Row, Noted
<1>5. Exists(k) => keys' = [keys EXCEPT ![k] = row]
  BY <1>2
<1> HIDE DEF row
<1>6. /\ keys' \in [Key -> Row \cup {Absent, Deleted}]
      /\ \A j \in Key : keys'[j] = IF j = k /\ Exists(k) THEN row ELSE keys[j]
  BY <1>1, <1>2, <1>4, <1>5 DEF KeyInv, TypeOK
<1>7. /\ call' = [call EXCEPT ![p] = c]
      /\ UNCHANGED <<store, now, wanted, undone, unfit, dead>>
  BY DEF Touch
<1>8. c \in Calls /\ UpdateOK(c) /\ RequestOK(c)
  <2>1. /\ c \in KnownCalls /\ c.at = call[p].at /\ c.at \in {"known", "served"}
        /\ c.key = k /\ c.dead = call[p].dead
        /\ c.granted = call[p].granted /\ c.needs = call[p].needs
    BY <1>1 DEF KnownCalls
  <2>2. RequestOK(call[p])
    BY DEF KeyInv, CallsOK
  <2> QED
    BY <2>1, <2>2, CallsAre DEF UpdateOK, RequestOK
<1> HIDE DEF c
<1>9. /\ call' \in [Process -> Calls]
      /\ \A q \in Process : UpdateOK(call'[q]) /\ RequestOK(call'[q])
  BY <1>7, <1>8 DEF KeyInv, TypeOK, CallsOK
<1> QED
  BY <1>3, <1>4, <1>6, <1>7, <1>9, RowsAge DEF KeyInv, TypeOK

LEMMA AuthenticateKeeps ==
  ASSUME KeyInv, NEW p \in Process, Authenticate(p)
  PROVE  KeyInv'
<1>1. call[p] \in Calls /\ RequestOK(call[p]) /\ now \in 0 .. MaxClock
  BY DEF KeyInv, TypeOK, CallsOK
<1>2. ASSUME NEW k \in Key, NEW needs \in Role, Arrive(p, k, needs)
      PROVE  KeyInv'
  <2> DEFINE c == [at |-> "arrived", key |-> k, needs |-> needs, dead |-> k \in dead]
  <2>1. c \in Calls
    BY CallsAre DEF ArrivedCalls, Scopes
  <2>2. UpdateOK(c) /\ RequestOK(c)
    BY DEF UpdateOK, RequestOK
  <2> QED
    BY <1>2, <2>1, <2>2, CallMoves DEF Arrive, Goto
<1>3. ASSUME ReadsKey(p)
      PROVE  KeyInv'
  <2> DEFINE k == call[p].key
             c == [at |-> "known", key |-> k, needs |-> call[p].needs,
                   dead |-> call[p].dead, granted |-> keys[k].scopes,
                   since |-> now, noted |-> FALSE]
  <2>1. call[p] \in ArrivedCalls /\ k \in Key /\ keys[k] \in Row
    BY <1>1, <1>3, CallShape DEF ReadsKey, ArrivedCalls, Exists
  <2>2. k \notin dead /\ keys[k] # Absent
    BY <1>3, <2>1, RowShape DEF ReadsKey, Usable, KeyInv, DeadAreUnusable
  <2>3. c \in Calls
    BY <1>1, <2>1, CallsAre DEF ArrivedCalls, KnownCalls, Row
  <2>4. UpdateOK(c) /\ RequestOK(c)
    BY <1>1, <1>3, <2>2 DEF UpdateOK, RequestOK, ReadsKey
  <2> QED
    BY <1>3, <2>3, <2>4, CallMoves DEF ReadsKey, Goto
<1>4. ASSUME LetIn(p)
      PROVE  KeyInv'
  <2> DEFINE c == [call[p] EXCEPT !.at = "served"]
  <2>1. call[p] \in KnownCalls
    BY <1>1, <1>4, CallShape DEF LetIn
  <2>2. /\ c \in Calls /\ c.at = "served" /\ c.key = call[p].key /\ c.dead = call[p].dead
        /\ c.granted = call[p].granted /\ c.needs = call[p].needs
    BY <2>1, CallsAre DEF KnownCalls
  <2>3. UpdateOK(c) /\ RequestOK(c)
    BY <1>1, <1>4, <2>2 DEF UpdateOK, RequestOK, LetIn
  <2> QED
    BY <1>4, <2>2, <2>3, CallMoves DEF LetIn
<1> QED
  BY <1>2, <1>3, <1>4, TouchKeeps DEF Authenticate

LEMMA KeyStep == KeyInv /\ [Next]_vars => KeyInv'
<1> SUFFICES ASSUME KeyInv, [Next]_vars PROVE KeyInv'
  OBVIOUS
<1>1. ASSUME NEW p \in Process, Leave(p) PROVE KeyInv'
  BY <1>1, CallMoves, IdleIsOK DEF Leave, Goto
<1>2. CASE Tick
  <2>1. now \in 0 .. MaxClock /\ now' \in 0 .. MaxClock /\ now <= now'
    BY <1>2, KeyConstants DEF Tick, KeyInv, TypeOK
  <2> QED
    BY <1>2, <2>1, RowsAge DEF Tick, KeyInv, TypeOK, CallsOK
<1>3. CASE UNCHANGED vars
  BY <1>3 DEF vars, KeyInv, TypeOK, HttpKeysExpire, ExpiryAsAsked, DeadAreUnusable,
    CallsOK, UpdateOK, RequestOK, Exists
<1> QED
  BY <1>1, <1>2, <1>3, IssueKeeps, WithdrawKeeps, UpdateKeeps, AuthenticateKeeps DEF Next

-----------------------------------------------------------------------------
(***************************************************************************)
(* Theorems                                                                *)
(***************************************************************************)

(* What every call in flight may rely on, and the agreement of the rows    *)
(* with what was asked for and withdrawn.                                  *)
THEOREM KeyInvariant == Spec => []KeyInv
BY KeyInit, KeyStep, PTL DEF Spec

(* No request leaves a key, or what it knows of one, outside its type: a   *)
(* product that wraps is an expiry all the same.                           *)
THEOREM TypeCorrect == Spec => []TypeOK
<1>1. KeyInv => TypeOK
  BY DEF KeyInv
<1> QED
  BY <1>1, KeyInvariant, PTL

(* Whatever updates race, a key issued over HTTP never has more than the   *)
(* longest lifetime left (Issue, Update).                                  *)
THEOREM HttpKeysStayLimited == Spec => []HttpKeysExpire
<1>1. KeyInv => HttpKeysExpire
  BY DEF KeyInv
<1> QED
  BY <1>1, KeyInvariant, PTL

(* Only a rename that read the row before can undo an expiry that was      *)
(* asked for, for any number of updates at once.                           *)
THEOREM ExpiryOnlyLostByRace == Spec => []ExpiryAsAsked
<1>1. KeyInv => ExpiryAsAsked
  BY DEF KeyInv
<1> QED
  BY <1>1, KeyInvariant, PTL

(* No request that came after its key was withdrawn is served, and none    *)
(* beyond the scopes of its key (Authenticate, requireScope).              *)
THEOREM OnlyValidAreServed == Spec => []ServedWasValid
<1>1. KeyInv => ServedWasValid
  BY DEF KeyInv, CallsOK, RequestOK, ServedWasValid
<1> QED
  BY <1>1, KeyInvariant, PTL

=============================================================================
