------------------------------ MODULE ApiKeys ------------------------------
(***************************************************************************)
(* API keys: how they are issued, changed and withdrawn, and the request   *)
(* that presents one.                                                      *)
(*                                                                         *)
(*   POST   /v1/keys            APIKeys.Issue                              *)
(*   PATCH  /v1/keys/{keyId}    APIKeys.Update                             *)
(*   DELETE /v1/keys/{keyId}    APIKeys.Revoke, with hard=true Delete      *)
(*   apikey issue | revoke      the command, without a limit on lifetime   *)
(*   every /v1 request          KeyAuth.Authenticate, requireScope         *)
(*                                                                         *)
(* Update reads a row, changes what the body names and writes both columns *)
(* back in a later statement.  A request reads the key once, records that  *)
(* it was used, and is then let in whatever happens to the key meanwhile.  *)
(***************************************************************************)
EXTENDS Integers

CONSTANTS
  Key,           \* key ids, never reused
  Role,          \* sets of scopes a key can be issued with
  Process,       \* requests that can be in flight together
  Hours,         \* values of expiresInHours in request bodies
  Hour,          \* ticks of the clock in an hour
  MaxLife,       \* maxKeyLifetime, in ticks
  Width,         \* a Duration holds this many values, half of them negative
  Minute,        \* the grain of last_used_at, in ticks
  MaxClock       \* bound on the clock

ASSUME KeyConstants ==
  /\ Hours \subseteq Int
  /\ Hour \in Nat \ {0} /\ Width \in Nat \ {0} /\ MaxLife \in Nat
  /\ MaxLife < Width \div 2      \* a year fits into a Duration
  /\ Minute \in Nat /\ MaxClock \in Nat \ {0}

VARIABLES
  store,         \* which implementation of store.APIKeys serves
  now,           \* the clock; 0 stands for "before the first key"
  keys,          \* api_key, by id
  call,          \* call[p]: what p is in the middle of
  wanted,        \* wanted[k]: the instant that was last asked for as expiry
  undone,        \* keys whose wanted expiry was overwritten by an update that
                 \* had read the row before
  unfit,         \* keys whose wanted lifetime is none that HTTP may give, but
                 \* was accepted all the same
  dead           \* keys whose revocation or deletion was answered

vars == <<store, now, keys, call, wanted, undone, unfit, dead>>

-----------------------------------------------------------------------------
Absent  == [row |-> "absent"]
Deleted == [row |-> "deleted"]

Never == MaxClock + MaxLife + 1     \* expires_at IS NULL: later than any expiry

Expiry == -Width .. Never

Scopes == UNION Role

Row == [expires : Expiry, revoked : BOOLEAN, scopes : SUBSET Scopes,
        made : {"command", "http"}, used : 0 .. MaxClock]

Idle == [at |-> "idle"]

Calls == {Idle}
  \cup [at : {"update"}, key : Key, expires : Expiry, asked : BOOLEAN, raced : BOOLEAN,
        wants : Int, unfit : BOOLEAN]
  \cup [at : {"arrived"}, key : Key, needs : SUBSET Scopes, dead : BOOLEAN]
  \cup [at : {"known", "served"}, key : Key, needs : SUBSET Scopes, dead : BOOLEAN,
        granted : SUBSET Scopes, since : 0 .. MaxClock, noted : BOOLEAN]

TypeOK ==
  /\ store \in {"postgres", "memory"}
  /\ now \in 0 .. MaxClock
  /\ keys \in [Key -> Row \cup {Absent, Deleted}]
  /\ call \in [Process -> Calls]
  /\ wanted \in [Key -> Int]
  /\ undone \subseteq Key
  /\ unfit \subseteq Key
  /\ dead \subseteq Key

Exists(k) == keys[k] \in Row

(* Key.Usable.                                                             *)
Usable(key) == ~key.revoked /\ now < key.expires

Goto(p, c) == call' = [call EXCEPT ![p] = c]

(* time.Duration(hours) * time.Hour, in the width of a Duration.           *)
Lasting(hours) == ((hours * Hour + Width \div 2) % Width) - Width \div 2

(* The lifetime that hours asks for is not one that a key may be given     *)
(* over HTTP.                                                              *)
Unfit(hours) == hours * Hour \notin 1 .. MaxLife

-----------------------------------------------------------------------------
(* wants is the instant that was asked for; isUnfit, that HTTP may not     *)
(* give a key so long or short a life.                                     *)
Create(k, expires, role, made, wants, isUnfit) ==
  /\ keys[k] = Absent
  /\ keys' = [keys EXCEPT ![k] = [expires |-> expires, revoked |-> FALSE,
                                  scopes |-> role, made |-> made, used |-> 0]]
  /\ wanted' = [wanted EXCEPT ![k] = wants]
  /\ unfit' = IF isUnfit THEN unfit \cup {k} ELSE unfit
  /\ UNCHANGED <<store, now, call, undone, dead>>

Issue(k, hours, role) ==
  /\ Lasting(hours) > 0
  /\ Lasting(hours) <= MaxLife
  /\ Create(k, now + Lasting(hours), role, "http", now + hours * Hour, Unfit(hours))

\* Mutant: the instant parseExpiry returns is taken for a duration.
CommandIssueLater(k, expires, role) ==
  /\ expires > now
  /\ Create(k, now + expires, role, "command", now + expires, FALSE)

(* The command takes any positive lifetime, or none.                       *)
CommandIssue(k, expires, role) ==
  /\ expires > now
  /\ Create(k, expires, role, "command", expires, FALSE)

(* ByKeyID in Update, and what the body makes of the row.  hours is looked *)
(* at before it is multiplied, so a product that wraps is not refused.     *)
UpdateReads(p, k, hours) ==
  /\ call[p] = Idle
  /\ Exists(k)
  /\ hours > 0 /\ Lasting(hours) <= MaxLife
  /\ Goto(p, [at |-> "update", key |-> k, expires |-> now + Lasting(hours),
              asked |-> TRUE, raced |-> FALSE,
              wants |-> now + hours * Hour, unfit |-> Unfit(hours)])
  /\ UNCHANGED <<store, now, keys, wanted, undone, unfit, dead>>

\* Mutant: hours = 0 takes the limit away.
RenameOrUnlimit(p, k) ==
  /\ call[p] = Idle
  /\ Exists(k)
  /\ \E expires \in {keys[k].expires, Never} :
       Goto(p, [at |-> "update", key |-> k, expires |-> expires,
                asked |-> expires # keys[k].expires, raced |-> FALSE,
                wants |-> expires, unfit |-> FALSE])
  /\ UNCHANGED <<store, now, keys, wanted, undone, unfit, dead>>

(* A body with a name alone: the expiry that was read is written back.     *)
RenameReads(p, k) ==
  /\ call[p] = Idle
  /\ Exists(k)
  /\ Goto(p, [at |-> "update", key |-> k, expires |-> keys[k].expires,
              asked |-> FALSE, raced |-> FALSE,
              wants |-> keys[k].expires, unfit |-> FALSE])
  /\ UNCHANGED <<store, now, keys, wanted, undone, unfit, dead>>

(* Updates of k that were read before a new expiry is written.             *)
Raced(p, k) ==
  [q \in Process |->
     IF q = p THEN Idle
     ELSE IF call[p].asked /\ call[q].at = "update" /\ call[q].key = k
     THEN [call[q] EXCEPT !.raced = TRUE]
     ELSE call[q]]

Settle(p, k) ==
  /\ wanted' = [wanted EXCEPT ![k] = IF call[p].asked THEN call[p].wants ELSE @]
  /\ undone' = IF call[p].asked THEN undone \ {k}
               ELSE IF call[p].raced THEN undone \cup {k}
               ELSE undone
  /\ unfit' = IF ~call[p].asked THEN unfit
              ELSE IF call[p].unfit THEN unfit \cup {k}
              ELSE unfit \ {k}
  /\ call' = Raced(p, k)
  /\ UNCHANGED <<store, now, dead>>

\* Mutant: a lifetime can be extended but not cut short.
UpdateExtends(p) ==
  LET k == call[p].key IN
  /\ call[p].at = "update"
  /\ Exists(k)
  /\ keys' = [keys EXCEPT ![k].expires = IF call[p].expires > @ THEN call[p].expires ELSE @]
  /\ Settle(p, k)

\* Mutant: the whole row is written back as it was read.
UpdateRevives(p) ==
  LET k == call[p].key IN
  /\ call[p].at = "update"
  /\ Exists(k)
  /\ keys' = [keys EXCEPT ![k].expires = call[p].expires, ![k].revoked = FALSE]
  /\ Settle(p, k)

(* The UPDATE statement sets name and expires_at and nothing else.         *)
UpdateWrites(p) ==
  LET k == call[p].key IN
  /\ call[p].at = "update"
  /\ Exists(k)
  /\ keys' = [keys EXCEPT ![k].expires = call[p].expires]
  /\ Settle(p, k)

Revoke(k) ==
  /\ Exists(k)
  /\ keys' = [keys EXCEPT ![k].revoked = TRUE]
  /\ dead' = dead \cup {k}
  /\ UNCHANGED <<store, now, call, wanted, undone, unfit>>

Delete(k) ==
  /\ Exists(k)
  /\ keys' = [keys EXCEPT ![k] = Deleted]
  /\ dead' = dead \cup {k}
  /\ UNCHANGED <<store, now, call, wanted, undone, unfit>>

-----------------------------------------------------------------------------
(* A request with the token of k, for a route and an actor header that     *)
(* together need these scopes.                                             *)
Arrive(p, k, needs) ==
  /\ call[p] = Idle
  /\ keys[k] # Absent
  /\ Goto(p, [at |-> "arrived", key |-> k, needs |-> needs, dead |-> k \in dead])
  /\ UNCHANGED <<store, now, keys, wanted, undone, unfit, dead>>

(* ByKeyID, the hash and Usable.                                           *)
ReadsKey(p) ==
  LET k == call[p].key IN
  /\ call[p].at = "arrived"
  /\ Exists(k)
  /\ Usable(keys[k])
  /\ Goto(p, [at |-> "known", key |-> k, needs |-> call[p].needs, dead |-> call[p].dead,
              granted |-> keys[k].scopes, since |-> now, noted |-> FALSE])
  /\ UNCHANGED <<store, now, keys, wanted, undone, unfit, dead>>

(* TouchLastUsed: Postgres leaves a mark of less than a minute ago alone.  *)
Noted(key, at) ==
  IF store = "memory" \/ key.used = 0 \/ key.used < at - Minute THEN at ELSE key.used

Touch(p) ==
  LET k == call[p].key IN
  /\ call[p].at = "known" /\ ~call[p].noted
  /\ \E at \in call[p].since .. now :
       keys' = IF Exists(k) THEN [keys EXCEPT ![k].used = Noted(keys[k], at)] ELSE keys
  /\ call' = [call EXCEPT ![p].noted = TRUE]
  /\ UNCHANGED <<store, now, wanted, undone, unfit, dead>>

(* The actor header and requireScope; a failed Touch is only logged.       *)
LetIn(p) ==
  /\ call[p].at = "known"
  /\ call[p].needs \subseteq call[p].granted
  /\ call' = [call EXCEPT ![p].at = "served"]
  /\ UNCHANGED <<store, now, keys, wanted, undone, unfit, dead>>

(* 401, 403, 404, an error of the store, the end of the request.           *)
Leave(p) ==
  /\ call[p] # Idle
  /\ Goto(p, Idle)
  /\ UNCHANGED <<store, now, keys, wanted, undone, unfit, dead>>

Tick ==
  /\ now < MaxClock
  /\ now' = now + 1
  /\ UNCHANGED <<store, keys, call, wanted, undone, unfit, dead>>

Init ==
  /\ store \in {"postgres", "memory"}
  /\ now = 1
  /\ keys = [k \in Key |-> Absent]
  /\ call = [p \in Process |-> Idle]
  /\ wanted = [k \in Key |-> Never]
  /\ undone = {}
  /\ unfit = {}
  /\ dead = {}

(* DELETE on a key revokes it, or removes the row when hard=true.          *)
Withdraw(k) == Revoke(k) \/ Delete(k)

Update(p) ==
  \/ \E k \in Key, hours \in Hours : UpdateReads(p, k, hours)
  \/ \E k \in Key : RenameReads(p, k)
  \/ UpdateWrites(p)

Authenticate(p) ==
  \/ \E k \in Key, needs \in Role : Arrive(p, k, needs)
  \/ ReadsKey(p)
  \/ Touch(p)
  \/ LetIn(p)

Next ==
  \/ \E k \in Key, hours \in Hours, role \in Role : Issue(k, hours, role)
  \/ \E k \in Key, role \in Role, expires \in {now + MaxLife, Never} :
       CommandIssue(k, expires, role)
  \/ \E k \in Key : Withdraw(k)
  \/ \E p \in Process : Update(p) \/ Authenticate(p) \/ Leave(p)
  \/ Tick

Spec == Init /\ [][Next]_vars

-----------------------------------------------------------------------------
(* A key issued over HTTP never has more than a year left, whichever       *)
(* updates race: no write-back can give it the eternity that only the      *)
(* command grants ("jalur HTTP tidak menerbitkan maupun membuat kunci      *)
(* abadi").                                                                *)
HttpKeysExpire ==
  \A k \in Key :
    (Exists(k) /\ keys[k].made = "http") => keys[k].expires <= now + MaxLife

(* The expiry of a key is the instant last asked for, with two exceptions: *)
(* a rename that had read the row before wrote it back after, and a        *)
(* lifetime that is negative or longer than a year wrapped into one that   *)
(* passes the check.                                                       *)
ExpiryAsAsked ==
  \A k \in Key :
    (Exists(k) /\ keys[k].expires # wanted[k]) => k \in undone \cup unfit

(* Not kept, and not checked (README, section 4): the two exceptions.      *)
(* "Masa berlaku maksimal 365 hari" is refused with 422, whatever the      *)
(* number of hours; a field that the body does not name is not changed     *)
(* ("Field nil = tidak diubah").                                           *)
UnfitLivesRefused == unfit = {}

RenameKeepsExpiry ==
  [][\A p \in Process :
       (call[p].at = "update" /\ ~call[p].asked /\ call'[p] = Idle /\ Exists(call[p].key))
         => keys'[call[p].key].expires = keys[call[p].key].expires]_vars

(* A request that arrives after the revocation or deletion of its key was  *)
(* answered is not served ("berlaku pada request berikutnya"), and what is *)
(* served is within the scopes the key was issued with.                    *)
ServedWasValid ==
  \A p \in Process :
    call[p].at = "served" =>
      /\ ~call[p].dead
      /\ Exists(call[p].key) => call[p].needs \subseteq keys[call[p].key].scopes
=============================================================================
