--------------------------- MODULE SessionProofs ---------------------------
(***************************************************************************)
(* Theorems about DashboardSessions, for any operators, sessions, emails,  *)
(* requests in flight and bounds: the tables are whole, an old session     *)
(* survives only by the race that the module names, and no request is      *)
(* served on a session that was dead when it arrived.                      *)
(***************************************************************************)
EXTENDS DashboardSessions, TLAPS

-----------------------------------------------------------------------------
(* The inductive invariant.                                                *)
Typed ==
  /\ now \in 0 .. MaxClock
  /\ users \in [User -> Account \cup {Absent, Deleted}]
  /\ sessions \in [Session -> Login \cup {Absent, Deleted}]
  /\ call \in [Process -> Calls]
  /\ pending \subseteq User
  /\ ended \subseteq Session

EmailsUnique ==
  \A u, v \in User : (Exists(u) /\ Exists(v) /\ users[u].email = users[v].email) => u = v

OwnersExist ==
  store = "postgres" => \A s \in Session : Issued(s) => Exists(sessions[s].user)

(* Epoch e of operator u is the account's, or a revocation is still to     *)
(* come, or came too early for the session (late).  An operator who has    *)
(* logged in is never an unused id.                                        *)
Current(u, e, late) ==
  /\ users[u] # Absent
  /\ (Exists(u) /\ e # users[u].epoch) => late \/ u \in pending

SessionsCurrent ==
  \A s \in Session :
    (Issued(s) /\ ~sessions[s].revoked)
      => Current(sessions[s].user, sessions[s].epoch, sessions[s].late)

OwnersKnown == \A s \in Session : Issued(s) => users[sessions[s].user] # Absent

LoginOK(c) == c.at = "create" => Current(c.user, c.epoch, c.late) /\ c.since <= now

EndedAreDead ==
  \A s \in ended : sessions[s] # Absent /\ (Issued(s) => sessions[s].revoked)

Requests == {"session", "owner", "served"}

RequestOK(c) ==
  c.at \in Requests =>
    /\ sessions[c.session] # Absent
    /\ c.since <= now
    /\ c.at = "session" => (c.ended => c.session \in ended)
    /\ c.at # "session" => /\ ~c.ended
                           /\ Issued(c.session) => c.since < sessions[c.session].expires
    /\ c.at # "served" => (c.off => ~(Issued(c.session) /\ Active(sessions[c.session].user)))
    /\ c.at = "served" => ~c.off

CallsOK == \A p \in Process : LoginOK(call[p]) /\ RequestOK(call[p])

SessionInv ==
  /\ Typed /\ EmailsUnique /\ OwnersExist
  /\ SessionsCurrent /\ OwnersKnown /\ EndedAreDead /\ CallsOK

-----------------------------------------------------------------------------
(* Rows and calls tell themselves apart by their fields.                   *)
LEMMA AccountShape ==
  /\ Absent \notin Account /\ Deleted \notin Account /\ Absent # Deleted
  /\ Absent \notin Login /\ Deleted \notin Login
<1>1. ASSUME Absent \in Account PROVE FALSE
  BY <1>1 DEF Absent, Account
<1>2. ASSUME Deleted \in Account PROVE FALSE
  BY <1>2 DEF Deleted, Account
<1>3. ASSUME Absent \in Login PROVE FALSE
  BY <1>3 DEF Absent, Login
<1>4. ASSUME Deleted \in Login PROVE FALSE
  BY <1>4 DEF Deleted, Login
<1>5. Absent # Deleted
  BY DEF Absent, Deleted
<1> QED
  BY <1>1, <1>2, <1>3, <1>4, <1>5

CreateCalls ==
  [at : {"create"}, user : User, epoch : 0 .. MaxChanges, since : 0 .. MaxClock, late : BOOLEAN]
RequestCalls ==
  [at : Requests, session : Session, since : 0 .. MaxClock, ended : BOOLEAN, off : BOOLEAN]
RenameCalls == [at : {"rename"}, user : User, email : Email]
PatchCalls == [at : {"renamed", "password", "changed", "disable"}, user : User]

LEMMA CallShapes ==
  ASSUME NEW c \in Calls
  PROVE  /\ c.at = "create" => c \in CreateCalls
         /\ c.at \in Requests => c \in RequestCalls
         /\ c.at = "rename" => c \in RenameCalls
         /\ c.at \in {"renamed", "password", "changed", "disable"} => c \in PatchCalls
BY DEF Calls, Idle, CreateCalls, RequestCalls, RenameCalls, PatchCalls, Requests

LEMMA CallKinds ==
  CreateCalls \cup RequestCalls \cup RenameCalls \cup PatchCalls \cup {Idle} = Calls
BY DEF Calls, CreateCalls, RequestCalls, RenameCalls, PatchCalls, Requests

LEMMA IdleIsOK == Idle \in Calls /\ LoginOK(Idle) /\ RequestOK(Idle) /\ Idle.at = "idle"
BY DEF Calls, Idle, LoginOK, RequestOK, Requests

(* A patch or a rename knows nothing of sessions.                          *)
LEMMA PatchIsOK ==
  ASSUME NEW c \in RenameCalls \cup PatchCalls
  PROVE  LoginOK(c) /\ RequestOK(c) /\ c \in Calls
BY CallKinds DEF RenameCalls, PatchCalls, LoginOK, RequestOK, Requests

LEMMA SessionInit == Init => SessionInv
<1> SUFFICES ASSUME Init PROVE SessionInv
  OBVIOUS
<1>1. /\ \A u \in User : users[u] = Absent /\ ~Exists(u)
      /\ \A s \in Session : sessions[s] = Absent /\ ~Issued(s)
      /\ \A p \in Process : call[p] = Idle
      /\ ended = {} /\ pending = {} /\ now = 0
  BY AccountShape DEF Init, Exists, Issued
<1>2. Typed
  BY <1>1, IdleIsOK, SessionConstants DEF Init, Typed
<1> QED
  BY <1>1, <1>2, IdleIsOK DEF SessionInv, EmailsUnique, OwnersExist, SessionsCurrent,
    OwnersKnown, EndedAreDead, CallsOK

-----------------------------------------------------------------------------
(* Steps that only move a call on.                                         *)
LEMMA CallMoves ==
  ASSUME SessionInv, NEW p \in Process, NEW c \in Calls, LoginOK(c), RequestOK(c),
         call' = [call EXCEPT ![p] = c],
         UNCHANGED <<store, now, users, sessions, pending, ended>>
  PROVE  SessionInv'
<1>1. \A q \in Process : call'[q] = IF q = p THEN c ELSE call[q]
  BY DEF SessionInv, Typed
<1>2. Typed'
  BY DEF SessionInv, Typed
<1>3. CallsOK'
  <2> SUFFICES ASSUME NEW q \in Process PROVE LoginOK(call[q])' /\ RequestOK(call[q])'
    BY DEF CallsOK
  <2>1. PICK d : d = call'[q]
    OBVIOUS
  <2>2. LoginOK(d) /\ RequestOK(d)
    BY <1>1, <2>1 DEF SessionInv, CallsOK
  <2>3. LoginOK(call[q])'
    BY <2>1, <2>2 DEF LoginOK, Current, Exists
  <2>4. RequestOK(call[q])'
    BY <2>1, <2>2 DEF RequestOK, Issued, Active, Exists
  <2> QED
    BY <2>3, <2>4
<1> QED
  BY <1>2, <1>3 DEF SessionInv, EmailsUnique, OwnersExist, SessionsCurrent, OwnersKnown,
    EndedAreDead, Current, Exists, Issued

LEMMA LoginReadsKeeps ==
  ASSUME SessionInv, NEW p \in Process, NEW email \in Email, LoginReads(p, email)
  PROVE  SessionInv'
<1>1. PICK u \in User :
        /\ Active(u)
        /\ call' = [call EXCEPT ![p] = [at |-> "create", user |-> u, epoch |-> users[u].epoch,
                                        since |-> now, late |-> FALSE]]
        /\ UNCHANGED <<store, now, users, sessions, pending, ended>>
  BY DEF LoginReads, Goto
<1> DEFINE c == [at |-> "create", user |-> u, epoch |-> users[u].epoch, since |-> now,
                 late |-> FALSE]
<1>2. users[u] \in Account /\ now \in 0 .. MaxClock
  BY <1>1 DEF SessionInv, Typed, Active, Exists
<1>3. c \in CreateCalls
  BY <1>2 DEF CreateCalls, Account
<1>4. LoginOK(c)
  BY <1>2, AccountShape DEF LoginOK, Current
<1>5. RequestOK(c)
  BY DEF RequestOK, Requests
<1> HIDE DEF c
<1> QED
  BY <1>1, <1>3, <1>4, <1>5, CallKinds, CallMoves DEF c

LEMMA ArriveKeeps ==
  ASSUME SessionInv, NEW p \in Process, NEW s \in Session, Arrive(p, s)
  PROVE  SessionInv'
<1> DEFINE c == [at |-> "session", session |-> s, since |-> now, ended |-> s \in ended,
                 off |-> Issued(s) => ~Active(sessions[s].user)]
<1>1. /\ call' = [call EXCEPT ![p] = c]
      /\ UNCHANGED <<store, now, users, sessions, pending, ended>>
      /\ sessions[s] # Absent
  BY DEF Arrive, Goto
<1>2. now \in 0 .. MaxClock
  BY DEF SessionInv, Typed
<1>3. c.at = "session" /\ c.session = s /\ c.since = now
  OBVIOUS
<1>4. c.ended <=> s \in ended
  OBVIOUS
<1>5. c.off <=> (Issued(s) => ~Active(sessions[s].user))
  OBVIOUS
<1>6. c \in RequestCalls
  <2>1. (s \in ended) \in BOOLEAN
    OBVIOUS
  <2>2. (Issued(s) => ~Active(sessions[s].user)) \in BOOLEAN
    OBVIOUS
  <2>3. PICK e, o : /\ e = (s \in ended) /\ o = (Issued(s) => ~Active(sessions[s].user))
    OBVIOUS
  <2>4. e \in BOOLEAN /\ o \in BOOLEAN
    BY <2>1, <2>2, <2>3, Zenon
  <2>5. c = [at |-> "session", session |-> s, since |-> now, ended |-> e, off |-> o]
    BY <2>3, Zenon
  <2> HIDE DEF c
  <2> QED
    BY <1>2, <2>4, <2>5 DEF RequestCalls, Requests
<1> HIDE DEF c
<1>7. LoginOK(c)
  BY <1>3 DEF LoginOK
<1>8. RequestOK(c)
  BY <1>1, <1>2, <1>3, <1>4, <1>5 DEF RequestOK, Requests
<1> QED
  BY <1>1, <1>6, <1>7, <1>8, CallKinds, CallMoves

LEMMA ReadsKeep ==
  ASSUME SessionInv, NEW p \in Process, ReadsSession(p) \/ ReadsOwner(p)
  PROVE  SessionInv'
<1>1. PICK next \in {"owner", "served"} :
        /\ call' = [call EXCEPT ![p].at = next]
        /\ UNCHANGED <<store, now, users, sessions, pending, ended>>
        /\ next = "owner" => call[p].at = "session" /\ Usable(call[p].session)
        /\ next = "served" => /\ call[p].at = "owner" /\ Issued(call[p].session)
                              /\ Active(sessions[call[p].session].user)
  BY DEF ReadsSession, ReadsOwner
<1> DEFINE c == [call[p] EXCEPT !.at = next]
<1>2. call[p] \in RequestCalls /\ RequestOK(call[p])
  BY <1>1, CallShapes DEF SessionInv, Typed, CallsOK, Requests
<1>3. call' = [call EXCEPT ![p] = c]
  BY <1>1
<1>4. /\ c \in RequestCalls /\ c.at = next /\ c.session = call[p].session
      /\ c.since = call[p].since /\ c.ended = call[p].ended /\ c.off = call[p].off
  BY <1>2 DEF RequestCalls, Requests
<1>5. LoginOK(c)
  BY <1>4 DEF LoginOK
<1>6. RequestOK(c)
  <2> HIDE DEF c
  <2>1. CASE next = "owner"
    <3>1. /\ Issued(c.session) /\ ~sessions[c.session].revoked
          /\ now < sessions[c.session].expires
      BY <1>1, <1>4, <2>1 DEF Usable
    <3>2. ~c.ended
      BY <1>1, <1>2, <1>4, <2>1, <3>1 DEF SessionInv, EndedAreDead, RequestOK, Requests
    <3>3. c.since < sessions[c.session].expires
      <4>1. /\ c.since \in Int /\ now \in Int /\ c.since <= now
            /\ sessions[c.session].expires \in Int
        BY <1>1, <1>2, <1>4, <2>1, <3>1, SessionConstants
           DEF RequestCalls, SessionInv, Typed, Issued, Login, RequestOK, Requests
      <4> QED
        BY <3>1, <4>1
    <3> QED
      BY <1>1, <1>2, <1>4, <2>1, <3>2, <3>3 DEF RequestOK, Requests
  <2>2. CASE next = "served"
    BY <1>1, <1>2, <1>4, <2>2 DEF RequestOK, Requests
  <2> QED
    BY <2>1, <2>2
<1> HIDE DEF c
<1> QED
  BY <1>1, <1>3, <1>4, <1>5, <1>6, CallKinds, CallMoves

LEMMA LeaveKeeps ==
  ASSUME SessionInv, NEW p \in Process, Leave(p)
  PROVE  SessionInv'
BY IdleIsOK, CallMoves DEF Leave, Goto

LEMMA ProfileReadsKeeps ==
  ASSUME SessionInv, NEW p \in Process, NEW u \in User, NEW email \in Email,
         ProfileReads(p, u, email)
  PROVE  SessionInv'
<1> DEFINE c == [at |-> "rename", user |-> u, email |-> email]
<1>1. c \in RenameCalls
  BY DEF RenameCalls
<1>2. call' = [call EXCEPT ![p] = c] /\ UNCHANGED <<store, now, users, sessions, pending, ended>>
  BY DEF ProfileReads, Goto
<1> HIDE DEF c
<1> QED
  BY <1>1, <1>2, PatchIsOK, CallMoves

-----------------------------------------------------------------------------
(* Steps that write an account: its epoch stays or a revocation is to      *)
(* come, and whoever counts on the operator being off is told otherwise.   *)
LEMMA AccountWritten ==
  ASSUME SessionInv, NEW u \in User, NEW a \in Account, EmailFree(u, a.email),
         users' = [users EXCEPT ![u] = a],
         UNCHANGED <<store, now, sessions, ended>>,
         pending \subseteq pending', pending' \subseteq User,
         \/ users[u] = Absent
         \/ Exists(u) /\ a.epoch = users[u].epoch
         \/ Exists(u) /\ u \in pending',
         call' \in [Process -> Calls],
         \A q \in Process :
           \/ /\ call'[q] = call[q]
              /\ (call[q].at \in {"session", "owner"} /\ call[q].session \in Own(u) /\ a.enabled)
                   => Active(u)
           \/ call'[q] \in RenameCalls \cup PatchCalls \cup {Idle}
           \/ /\ call[q].at \in {"session", "owner"}
              /\ call'[q] = [call[q] EXCEPT !.off = FALSE]
  PROVE  SessionInv'
<1>1. \A v \in User : users'[v] = IF v = u THEN a ELSE users[v]
  BY DEF SessionInv, Typed
<1>2. /\ \A v \in User : Exists(v)' <=> (v = u \/ Exists(v))
      /\ \A s \in Session : Issued(s)' <=> Issued(s)
  BY <1>1 DEF Exists, Issued
<1>3. Typed'
  BY DEF SessionInv, Typed
<1>4. EmailsUnique'
  BY <1>1, <1>2 DEF SessionInv, EmailsUnique, EmailFree
<1>5. \A s \in Session : Issued(s) => sessions[s].user \in User
  BY DEF Issued, Login
<1>6. OwnersExist' /\ OwnersKnown'
  BY <1>1, <1>2, <1>5, AccountShape DEF SessionInv, OwnersExist, OwnersKnown
<1>7. ASSUME NEW v \in User, NEW e, NEW late, Current(v, e, late)
      PROVE  Current(v, e, late)'
  BY <1>1, <1>2, <1>7, AccountShape DEF Current
<1>8. SessionsCurrent'
  BY <1>2, <1>5, <1>7 DEF SessionInv, SessionsCurrent
<1>9. EndedAreDead'
  BY <1>2 DEF SessionInv, Typed, EndedAreDead
<1>10. CallsOK'
  <2> SUFFICES ASSUME NEW q \in Process PROVE LoginOK(call[q])' /\ RequestOK(call[q])'
    BY DEF CallsOK
  <2>1. call[q] \in Calls /\ LoginOK(call[q]) /\ RequestOK(call[q])
    BY DEF SessionInv, Typed, CallsOK
  <2>2. CASE call'[q] = call[q]
    <3>1. LoginOK(call[q])'
      <4> SUFFICES ASSUME call[q].at = "create"
                   PROVE  Current(call[q].user, call[q].epoch, call[q].late)' /\ call[q].since <= now
        BY <2>2 DEF LoginOK
      <4>1. call[q].user \in User
        BY <2>1, CallShapes DEF CreateCalls
      <4> QED
        BY <1>7, <2>1, <2>2, <4>1 DEF LoginOK
    <3>2. RequestOK(call[q])'
      <4> SUFFICES ASSUME call[q].at \in Requests PROVE RequestOK(call[q])'
        BY <2>2 DEF RequestOK
      <4>1. call[q].session \in Session
        BY <2>1, CallShapes DEF RequestCalls
      <4>2. ASSUME call[q].at # "served", call[q].off, Issued(call[q].session)
            PROVE  ~Active(sessions[call[q].session].user)'
        <5>1. ~Active(sessions[call[q].session].user)
          BY <2>1, <4>2 DEF RequestOK
        <5>2. sessions[call[q].session].user = u => (a.enabled => Active(u))
          <6>1. call[q].at \in {"session", "owner"}
            BY <4>2 DEF Requests
          <6>2. sessions[call[q].session].user = u => call[q].session \in Own(u)
            BY <4>1, <4>2 DEF Own
          <6>3. ~(call'[q] \in RenameCalls \cup PatchCalls \cup {Idle})
            BY <2>2, <6>1 DEF RenameCalls, PatchCalls, Idle
          <6>4. call'[q] # [call[q] EXCEPT !.off = FALSE]
            BY <2>1, <2>2, <4>2, CallShapes DEF RequestCalls
          <6> QED
            BY <6>1, <6>2, <6>3, <6>4
        <5>3. sessions[call[q].session].user \in User
          BY <1>5, <4>1, <4>2
        <5> QED
          BY <1>1, <1>2, <2>2, <5>1, <5>2, <5>3 DEF Active
      <4> QED
        BY <1>2, <2>1, <2>2, <4>1, <4>2 DEF RequestOK
    <3> QED
      BY <3>1, <3>2
  <2>3. CASE call'[q] \in RenameCalls \cup PatchCalls \cup {Idle}
    BY <2>3 DEF RenameCalls, PatchCalls, Idle, LoginOK, RequestOK, Requests
  <2>4. CASE call[q].at \in {"session", "owner"} /\ call'[q] = [call[q] EXCEPT !.off = FALSE]
    <3>1. call[q] \in RequestCalls
      BY <2>1, <2>4, CallShapes DEF Requests
    <3>2. /\ call'[q].at = call[q].at /\ call'[q].session = call[q].session
          /\ call'[q].since = call[q].since /\ call'[q].ended = call[q].ended
          /\ call'[q].off = FALSE
      BY <2>4, <3>1 DEF RequestCalls
    <3> QED
      BY <1>2, <2>1, <2>4, <3>1, <3>2 DEF LoginOK, RequestOK, Requests, RequestCalls
  <2> QED
    BY <2>2, <2>3, <2>4
<1> QED
  BY <1>3, <1>4, <1>6, <1>8, <1>9, <1>10 DEF SessionInv

LEMMA CreateUserKeeps ==
  ASSUME SessionInv, NEW u \in User, NEW email \in Email, CreateUser(u, email)
  PROVE  SessionInv'
<1> DEFINE a == [email |-> email, enabled |-> TRUE, epoch |-> 0]
<1>1. a \in Account /\ a.email = email
  BY SessionConstants DEF Account
<1>2. /\ users[u] = Absent /\ EmailFree(u, email)
      /\ users' = [users EXCEPT ![u] = a]
      /\ UNCHANGED <<store, now, sessions, call, pending, ended>>
  BY DEF CreateUser
<1>3. \A s \in Own(u) : FALSE
  BY <1>2 DEF SessionInv, OwnersKnown, Own
<1>4. pending \subseteq User /\ call \in [Process -> Calls]
  BY DEF SessionInv, Typed
<1> HIDE DEF a
<1> QED
  BY <1>1, <1>2, <1>3, <1>4, AccountWritten

LEMMA ProfileWritesKeeps ==
  ASSUME SessionInv, NEW p \in Process, ProfileWrites(p)
  PROVE  SessionInv'
<1>1. call \in [Process -> Calls] /\ pending \subseteq User /\ call[p] \in Calls
  BY DEF SessionInv, Typed
<1>2. call[p] \in RenameCalls
  BY <1>1, CallShapes DEF ProfileWrites
<1>3. PICK u \in User : u = call[p].user
  BY <1>2 DEF RenameCalls
<1> DEFINE a == [users[u] EXCEPT !.email = call[p].email]
           c == [at |-> "renamed", user |-> u]
<1>4. /\ Exists(u) /\ EmailFree(u, call[p].email)
      /\ users' = [users EXCEPT ![u] = a] /\ call' = [call EXCEPT ![p] = c]
      /\ UNCHANGED <<store, now, sessions, pending, ended>>
  BY <1>3 DEF ProfileWrites, Goto
<1>5. /\ a \in Account /\ a.email = call[p].email /\ a.epoch = users[u].epoch
      /\ a.enabled = users[u].enabled
  BY <1>2, <1>4 DEF Exists, Account, RenameCalls
<1>6. c \in PatchCalls
  BY DEF PatchCalls
<1>8. a.enabled => Active(u)
  BY <1>4, <1>5 DEF Active
<1> HIDE DEF a, c
<1>7. call' \in [Process -> Calls] /\ \A q \in Process : call'[q] = IF q = p THEN c ELSE call[q]
  BY <1>1, <1>4, <1>6, CallKinds
<1> QED
  BY <1>1, <1>4, <1>5, <1>6, <1>7, <1>8, AccountWritten

LEMMA PatchChangesKeep ==
  ASSUME SessionInv, NEW p \in Process, NEW u \in User, SetPassword(p, u) \/ SetDisabled(p, u)
  PROVE  SessionInv'
<1>1. call \in [Process -> Calls] /\ pending \subseteq User
  BY DEF SessionInv, Typed
<1>2. PICK on \in BOOLEAN, at \in {"password", "disable"} :
        /\ Exists(u) /\ users[u].epoch < MaxChanges
        /\ on => users[u].enabled
        /\ users' = [users EXCEPT ![u] =
             [users[u] EXCEPT !.enabled = on, !.epoch = users[u].epoch + 1]]
        /\ pending' = pending \cup {u}
        /\ call' = [call EXCEPT ![p] = [at |-> at, user |-> u]]
        /\ UNCHANGED <<store, now, sessions, ended>>
  <2>1. CASE SetPassword(p, u)
    <3>1. /\ Exists(u) /\ users[u].epoch < MaxChanges
          /\ users' = [users EXCEPT ![u].epoch = @ + 1]
          /\ pending' = pending \cup {u}
          /\ call' = [call EXCEPT ![p] = [at |-> "password", user |-> u]]
          /\ UNCHANGED <<store, now, sessions, ended>>
      BY <2>1 DEF SetPassword, Goto
    <3>2. users[u] \in Account
      BY <3>1 DEF Exists
    <3>3. [users[u] EXCEPT !.epoch = @ + 1] =
            [users[u] EXCEPT !.enabled = users[u].enabled, !.epoch = users[u].epoch + 1]
      BY <3>2 DEF Account
    <3>4. users[u].enabled \in BOOLEAN
      BY <3>2 DEF Account
    <3> QED
      BY <3>1, <3>3, <3>4
  <2>2. CASE SetDisabled(p, u)
    BY <2>2 DEF SetDisabled, Goto
  <2> QED
    BY <2>1, <2>2
<1> DEFINE a == [users[u] EXCEPT !.enabled = on, !.epoch = users[u].epoch + 1]
           c == [at |-> at, user |-> u]
<1>3. users[u] \in Account /\ a.email = users[u].email /\ a.enabled = on
  BY <1>2 DEF Exists, Account
<1>4. a \in Account
  <2>1. users[u].epoch + 1 \in 0 .. MaxChanges
    BY <1>2, <1>3, SessionConstants DEF Account
  <2> QED
    BY <1>2, <1>3, <2>1 DEF Account
<1>5. EmailFree(u, a.email)
  BY <1>2, <1>3 DEF EmailFree, SessionInv, EmailsUnique
<1>6. c \in PatchCalls
  BY DEF PatchCalls
<1>7. a.enabled => Active(u)
  BY <1>2, <1>3 DEF Active
<1>8. /\ users' = [users EXCEPT ![u] = a] /\ call' = [call EXCEPT ![p] = c]
  BY <1>2
<1> HIDE DEF a, c
<1>9. call' \in [Process -> Calls] /\ \A q \in Process : call'[q] = IF q = p THEN c ELSE call[q]
  BY <1>1, <1>6, <1>8, CallKinds
<1>10. \A q \in Process :
         \/ /\ call'[q] = call[q]
            /\ (call[q].at \in {"session", "owner"} /\ call[q].session \in Own(u) /\ a.enabled)
                 => Active(u)
         \/ call'[q] \in RenameCalls \cup PatchCalls \cup {Idle}
  BY <1>6, <1>7, <1>9
<1>11. /\ Exists(u) /\ u \in pending'
       /\ pending \subseteq pending' /\ pending' \subseteq User
       /\ UNCHANGED <<store, now, sessions, ended>>
  BY <1>1, <1>2
<1>12. users' = [users EXCEPT ![u] = a] /\ call' \in [Process -> Calls]
  BY <1>8, <1>9
<1> QED
  BY <1>4, <1>5, <1>10, <1>11, <1>12, AccountWritten

LEMMA SetEnabledKeeps ==
  ASSUME SessionInv, NEW p \in Process, NEW u \in User, SetEnabled(p, u)
  PROVE  SessionInv'
<1>1. call \in [Process -> Calls] /\ pending \subseteq User
  BY DEF SessionInv, Typed
<1> DEFINE a == [users[u] EXCEPT !.enabled = TRUE]
<1>2. /\ Exists(u) /\ users' = [users EXCEPT ![u] = a]
      /\ UNCHANGED <<store, now, sessions, pending, ended>>
      /\ call' = [q \in Process |->
           IF q = p THEN Idle
           ELSE IF call[q].at \in {"session", "owner"} /\ call[q].session \in Own(u)
           THEN [call[q] EXCEPT !.off = FALSE]
           ELSE call[q]]
  BY DEF SetEnabled
<1>3. users[u] \in Account /\ a.email = users[u].email /\ a.epoch = users[u].epoch /\ a \in Account
  BY <1>2 DEF Exists, Account
<1>4. EmailFree(u, a.email)
  BY <1>2, <1>3 DEF EmailFree, SessionInv, EmailsUnique
<1> HIDE DEF a
<1>5. \A q \in Process :
        IF q = p THEN call'[q] = Idle
        ELSE IF call[q].at \in {"session", "owner"} /\ call[q].session \in Own(u)
        THEN call'[q] = [call[q] EXCEPT !.off = FALSE]
        ELSE call'[q] = call[q]
  BY <1>2
<1>6. call' \in [Process -> Calls]
  <2> SUFFICES ASSUME NEW q \in Process PROVE call'[q] \in Calls
    BY <1>2
  <2>1. CASE call[q].at \in {"session", "owner"} /\ call'[q] = [call[q] EXCEPT !.off = FALSE]
    <3>1. call[q] \in RequestCalls
      BY <1>1, <2>1, CallShapes DEF Requests
    <3> QED
      BY <2>1, <3>1, CallKinds DEF RequestCalls
  <2> QED
    BY <1>1, <1>5, <2>1, IdleIsOK
<1> QED
  BY <1>1, <1>2, <1>3, <1>4, <1>5, <1>6, AccountWritten

-----------------------------------------------------------------------------
(* Steps that write sessions.                                              *)
LEMMA LogoutKeeps ==
  ASSUME SessionInv, NEW s \in Session, Logout(s)
  PROVE  SessionInv'
<1>1. /\ sessions[s] # Absent
      /\ sessions' = [sessions EXCEPT ![s] =
           IF Issued(s) THEN [sessions[s] EXCEPT !.revoked = TRUE] ELSE sessions[s]]
      /\ ended' = ended \cup {s}
      /\ UNCHANGED <<store, now, users, call, pending>>
  BY DEF Logout
<1>2. ~Issued(s) => sessions' = sessions
  BY <1>1 DEF SessionInv, Typed
<1>3. Issued(s) =>
        /\ sessions' = [sessions EXCEPT ![s] = [sessions[s] EXCEPT !.revoked = TRUE]]
        /\ [sessions[s] EXCEPT !.revoked = TRUE] \in Login
        /\ [sessions[s] EXCEPT !.revoked = TRUE].revoked
        /\ [sessions[s] EXCEPT !.revoked = TRUE].user = sessions[s].user
        /\ [sessions[s] EXCEPT !.revoked = TRUE].expires = sessions[s].expires
  BY <1>1 DEF Issued, Login
<1>4. \A x \in Session :
        /\ Issued(x)' <=> Issued(x)
        /\ sessions'[x] = Absent <=> sessions[x] = Absent
        /\ Issued(x) => /\ sessions'[x].user = sessions[x].user
                        /\ sessions'[x].expires = sessions[x].expires
                        /\ x = s => sessions'[x].revoked
        /\ x # s => sessions'[x] = sessions[x]
  BY <1>1, <1>2, <1>3, AccountShape DEF SessionInv, Typed, Issued
<1>5. Typed'
  BY <1>1, <1>2, <1>3 DEF SessionInv, Typed
<1>6. /\ EmailsUnique' /\ OwnersExist' /\ OwnersKnown'
  BY <1>1, <1>4 DEF SessionInv, EmailsUnique, OwnersExist, OwnersKnown, Exists
<1>7. SessionsCurrent'
  BY <1>1, <1>4 DEF SessionInv, SessionsCurrent, Current, Exists
<1>8. EndedAreDead'
  BY <1>1, <1>4 DEF SessionInv, Typed, EndedAreDead
<1>9. CallsOK'
  <2> SUFFICES ASSUME NEW q \in Process PROVE LoginOK(call[q])' /\ RequestOK(call[q])'
    BY DEF CallsOK
  <2>1. call[q] \in Calls /\ LoginOK(call[q]) /\ RequestOK(call[q]) /\ call'[q] = call[q]
    BY <1>1 DEF SessionInv, Typed, CallsOK
  <2>2. call[q].at \in Requests => call[q].session \in Session
    BY <2>1, CallShapes DEF RequestCalls
  <2>3. LoginOK(call[q])'
    BY <1>1, <2>1 DEF LoginOK, Current, Exists
  <2>4. RequestOK(call[q])'
    BY <1>1, <1>4, <2>1, <2>2 DEF RequestOK, Active, Exists
  <2> QED
    BY <2>3, <2>4
<1> QED
  BY <1>5, <1>6, <1>7, <1>8, <1>9 DEF SessionInv

LEMMA LoginCreatesKeeps ==
  ASSUME SessionInv, NEW p \in Process, NEW s \in Session, LoginCreates(p, s)
  PROVE  SessionInv'
<1>1. call[p] \in CreateCalls /\ LoginOK(call[p]) /\ call[p].at = "create"
  BY CallShapes DEF SessionInv, Typed, CallsOK, LoginCreates
<1>2. PICK made \in call[p].since .. now :
        sessions' = [sessions EXCEPT ![s] =
          [user |-> call[p].user, expires |-> made + Lifetime, revoked |-> FALSE,
           epoch |-> call[p].epoch, late |-> call[p].late]]
  BY DEF LoginCreates
<1>3. /\ sessions[s] = Absent /\ (store = "postgres" => Exists(call[p].user))
      /\ call' = [call EXCEPT ![p] = Idle]
      /\ UNCHANGED <<store, now, users, pending, ended>>
  BY DEF LoginCreates, Goto
<1> DEFINE row == [user |-> call[p].user, expires |-> made + Lifetime, revoked |-> FALSE,
                   epoch |-> call[p].epoch, late |-> call[p].late]
<1>4. made + Lifetime \in 0 .. MaxClock + Lifetime
  BY <1>1, SessionConstants DEF SessionInv, Typed, CreateCalls
<1>5. /\ row \in Login /\ row.user = call[p].user /\ row.epoch = call[p].epoch
      /\ row.late = call[p].late /\ row.user \in User
  BY <1>1, <1>4 DEF Login, CreateCalls
<1>6. sessions' = [sessions EXCEPT ![s] = row]
  BY <1>2
<1> HIDE DEF row
<1>7. \A x \in Session :
        /\ sessions'[x] = IF x = s THEN row ELSE sessions[x]
        /\ Issued(x)' <=> (x = s \/ Issued(x))
        /\ sessions[x] # Absent => x # s
  BY <1>3, <1>5, <1>6 DEF SessionInv, Typed, Issued
<1>8. Typed'
  BY <1>3, <1>5, <1>6, IdleIsOK DEF SessionInv, Typed
<1>9. Current(row.user, row.epoch, row.late)
  BY <1>1, <1>5 DEF LoginOK
<1>10. EmailsUnique' /\ OwnersExist' /\ OwnersKnown'
  BY <1>3, <1>5, <1>7, <1>9
     DEF SessionInv, EmailsUnique, OwnersExist, OwnersKnown, Exists, Current
<1>11. SessionsCurrent'
  BY <1>3, <1>7, <1>9 DEF SessionInv, SessionsCurrent, Current, Exists
<1>12. EndedAreDead'
  BY <1>3, <1>7 DEF SessionInv, Typed, EndedAreDead
<1>13. CallsOK'
  <2> SUFFICES ASSUME NEW q \in Process PROVE LoginOK(call[q])' /\ RequestOK(call[q])'
    BY DEF CallsOK
  <2>1. call[q] \in Calls /\ LoginOK(call[q]) /\ RequestOK(call[q])
    BY DEF SessionInv, Typed, CallsOK
  <2>2. call'[q] = IF q = p THEN Idle ELSE call[q]
    BY <1>3 DEF SessionInv, Typed
  <2>3. CASE q = p
    BY <2>2, <2>3 DEF Idle, LoginOK, RequestOK, Requests
  <2>4. CASE q # p
    <3>1. call[q].at \in Requests => /\ call[q].session \in Session
                                     /\ sessions'[call[q].session] = sessions[call[q].session]
                                     /\ (Issued(call[q].session)' <=> Issued(call[q].session))
      <4>1. call[q].at \in Requests => call[q].session \in Session
        BY <2>1, CallShapes DEF RequestCalls
      <4>2. call[q].at \in Requests => sessions[call[q].session] # Absent
        BY <2>1 DEF RequestOK
      <4> QED
        BY <1>7, <4>1, <4>2, <2>2, <2>4 DEF Issued
    <3>2. LoginOK(call[q])'
      BY <1>3, <2>1, <2>2, <2>4 DEF LoginOK, Current, Exists
    <3>3. RequestOK(call[q])'
      BY <1>3, <2>1, <2>2, <2>4, <3>1 DEF RequestOK, Active, Exists
    <3> QED
      BY <3>2, <3>3
  <2> QED
    BY <2>3, <2>4
<1> QED
  BY <1>8, <1>10, <1>11, <1>12, <1>13 DEF SessionInv

LEMMA RevokeKeeps ==
  ASSUME SessionInv, NEW p \in Process, RevokeUserSessions(p)
  PROVE  SessionInv'
<1>1. call[p] \in PatchCalls /\ call \in [Process -> Calls]
  BY CallShapes DEF SessionInv, Typed, RevokeUserSessions
<1>2. PICK u \in User : u = call[p].user
  BY <1>1 DEF PatchCalls
<1>3. /\ sessions' = [x \in Session |->
           IF x \in Own(u) THEN [sessions[x] EXCEPT !.revoked = TRUE] ELSE sessions[x]]
      /\ pending' = pending \ {u} /\ ended' = ended \cup Own(u)
      /\ call' = Revoked(p, u)
      /\ UNCHANGED <<store, now, users>>
  BY <1>2 DEF RevokeUserSessions
<1>4. \A x \in Own(u) :
        /\ x \in Session /\ Issued(x) /\ sessions[x].user = u
        /\ [sessions[x] EXCEPT !.revoked = TRUE] \in Login
        /\ [sessions[x] EXCEPT !.revoked = TRUE].revoked
        /\ [sessions[x] EXCEPT !.revoked = TRUE].user = sessions[x].user
        /\ [sessions[x] EXCEPT !.revoked = TRUE].expires = sessions[x].expires
  BY DEF Own, Issued, Login
<1>5. \A x \in Session :
        /\ Issued(x)' <=> Issued(x)
        /\ sessions'[x] = Absent <=> sessions[x] = Absent
        /\ Issued(x) => /\ sessions'[x].user = sessions[x].user
                        /\ sessions'[x].expires = sessions[x].expires
                        /\ sessions[x].user = u => sessions'[x].revoked
        /\ x \notin Own(u) => sessions'[x] = sessions[x]
        /\ x \in Own(u) => sessions'[x].revoked
  <2> SUFFICES ASSUME NEW x \in Session PROVE <1>5!(x)
    OBVIOUS
  <2>1. CASE x \in Own(u)
    BY <1>3, <1>4, <2>1, AccountShape DEF Issued
  <2>2. CASE x \notin Own(u)
    BY <1>3, <2>2 DEF Own, Issued
  <2> QED
    BY <2>1, <2>2
<1>6. sessions' \in [Session -> Login \cup {Absent, Deleted}]
  BY <1>3, <1>4 DEF SessionInv, Typed
<1>7. \A q \in Process :
        \/ call'[q] \in PatchCalls \cup {Idle}
        \/ call[q].at = "create" /\ call[q].user = u /\ call'[q] = [call[q] EXCEPT !.late = TRUE]
        \/ call'[q] = call[q] /\ ~(call[q].at = "create" /\ call[q].user = u)
  <2>1. [at |-> "changed", user |-> u] \in PatchCalls
    BY DEF PatchCalls
  <2> QED
    BY <1>3, <2>1 DEF Revoked
<1>8. call' \in [Process -> Calls]
  <2> SUFFICES ASSUME NEW q \in Process PROVE call'[q] \in Calls
    BY <1>3 DEF Revoked
  <2>1. CASE call[q].at = "create" /\ call'[q] = [call[q] EXCEPT !.late = TRUE]
    <3>1. call[q] \in CreateCalls
      BY <1>1, <2>1, CallShapes
    <3> QED
      BY <2>1, <3>1, CallKinds DEF CreateCalls
  <2> QED
    BY <1>1, <1>7, <2>1, CallKinds
<1>9. Typed'
  BY <1>3, <1>6, <1>8 DEF SessionInv, Typed, Own
<1>10. EmailsUnique' /\ OwnersExist' /\ OwnersKnown'
  <2>1. EmailsUnique'
    BY <1>3 DEF SessionInv, EmailsUnique, Exists
  <2>2. OwnersExist'
    BY <1>3, <1>5 DEF SessionInv, OwnersExist, Exists
  <2>3. OwnersKnown'
    BY <1>3, <1>5 DEF SessionInv, OwnersKnown
  <2> QED
    BY <2>1, <2>2, <2>3
<1>11. SessionsCurrent'
  BY <1>3, <1>5 DEF SessionInv, SessionsCurrent, Current, Exists, Own
<1>12. EndedAreDead'
  <2> SUFFICES ASSUME NEW x \in ended'
               PROVE  sessions'[x] # Absent /\ (Issued(x)' => sessions'[x].revoked)
    BY DEF EndedAreDead
  <2>1. CASE x \in Own(u)
    BY <1>4, <1>5, <2>1, AccountShape DEF Issued
  <2>2. CASE x \in ended /\ x \notin Own(u)
    <3>1. x \in Session /\ sessions[x] # Absent /\ (Issued(x) => sessions[x].revoked)
      BY <2>2 DEF SessionInv, Typed, EndedAreDead
    <3> QED
      BY <1>5, <2>2, <3>1
  <2> QED
    BY <1>3, <2>1, <2>2
<1>13. CallsOK'
  <2> SUFFICES ASSUME NEW q \in Process PROVE LoginOK(call[q])' /\ RequestOK(call[q])'
    BY DEF CallsOK
  <2>1. call[q] \in Calls /\ LoginOK(call[q]) /\ RequestOK(call[q])
    BY DEF SessionInv, Typed, CallsOK
  <2>2. CASE call'[q] \in PatchCalls \cup {Idle}
    BY <2>2 DEF PatchCalls, Idle, LoginOK, RequestOK, Requests
  <2>3. CASE call[q].at = "create" /\ call[q].user = u /\ call'[q] = [call[q] EXCEPT !.late = TRUE]
    <3>1. call[q] \in CreateCalls
      BY <2>1, <2>3, CallShapes
    <3>2. /\ call'[q].at = "create" /\ call'[q].user = u /\ call'[q].late
          /\ call'[q].since = call[q].since
      BY <2>3, <3>1 DEF CreateCalls
    <3>3. Current(call[q].user, call[q].epoch, call[q].late) /\ call[q].since <= now
      BY <2>1, <2>3 DEF LoginOK
    <3>4. LoginOK(call[q])'
      BY <1>3, <2>3, <3>2, <3>3 DEF LoginOK, Current, Exists
    <3>5. RequestOK(call[q])'
      BY <3>2 DEF RequestOK, Requests
    <3> QED
      BY <3>4, <3>5
  <2>4. CASE call'[q] = call[q] /\ ~(call[q].at = "create" /\ call[q].user = u)
    <3>1. call[q].at \in Requests => call[q].session \in Session
      BY <2>1, CallShapes DEF RequestCalls
    <3>2. LoginOK(call[q])'
      BY <1>3, <2>1, <2>4 DEF LoginOK, Current, Exists
    <3>3. RequestOK(call[q])'
      <4> SUFFICES ASSUME call[q].at \in Requests PROVE RequestOK(call[q])'
        BY <2>4 DEF RequestOK
      <4> DEFINE x == call[q].session
      <4>1. /\ x \in Session /\ call'[q] = call[q] /\ now' = now
            /\ x \in ended => x \in ended'
        BY <1>3, <2>4, <3>1
      <4>2. /\ Issued(x)' <=> Issued(x)
            /\ sessions'[x] = Absent <=> sessions[x] = Absent
            /\ Issued(x) => /\ sessions'[x].user = sessions[x].user
                            /\ sessions'[x].expires = sessions[x].expires
        BY <1>5, <4>1
      <4>3. Issued(x) => (Active(sessions[x].user)' <=> Active(sessions[x].user))
        BY <1>3, <4>1, <4>2 DEF Active, Exists
      <4>4. /\ sessions[x] # Absent
            /\ call[q].since <= now
            /\ call[q].at = "session" => (call[q].ended => x \in ended)
            /\ call[q].at # "session" => /\ ~call[q].ended
                                         /\ Issued(x) => call[q].since < sessions[x].expires
            /\ call[q].at # "served" => (call[q].off => ~(Issued(x) /\ Active(sessions[x].user)))
            /\ call[q].at = "served" => ~call[q].off
        BY <2>1 DEF RequestOK
      <4> QED
        BY <4>1, <4>2, <4>3, <4>4 DEF RequestOK
    <3> QED
      BY <3>2, <3>3
  <2> QED
    BY <1>7, <2>2, <2>3, <2>4
<1> QED
  BY <1>9, <1>10, <1>11, <1>12, <1>13 DEF SessionInv

(* The operator, the sessions and what was pending go together.            *)
LEMMA DeleteKeeps ==
  ASSUME SessionInv, NEW u \in User, DeleteUser(u), call' \in [Process -> Calls],
         \A q \in Process : call'[q] \in {call[q], Idle}
  PROVE  SessionInv'
<1>1. /\ Exists(u)
      /\ users' = [users EXCEPT ![u] = Deleted]
      /\ sessions' = [x \in Session |-> IF x \in Own(u) THEN Deleted ELSE sessions[x]]
      /\ ended' = ended \cup Own(u)
      /\ pending' = pending \ {u}
      /\ UNCHANGED <<store, now>>
  BY DEF DeleteUser
<1>2. \A v \in User :
        /\ users'[v] = IF v = u THEN Deleted ELSE users[v]
        /\ Exists(v)' <=> (v # u /\ Exists(v))
  BY <1>1, AccountShape DEF SessionInv, Typed, Exists
<1>3. \A x \in Session :
        /\ sessions'[x] = IF x \in Own(u) THEN Deleted ELSE sessions[x]
        /\ sessions'[x] = Absent <=> sessions[x] = Absent
        /\ Issued(x)' <=> (x \notin Own(u) /\ Issued(x))
        /\ Issued(x)' => sessions'[x] = sessions[x] /\ sessions[x].user # u
        /\ Issued(x) => sessions[x].user \in User
  BY <1>1, AccountShape DEF Own, Issued, Login
<1>4. Typed'
  BY <1>1 DEF SessionInv, Typed, Own
<1>5. EmailsUnique'
  BY <1>2 DEF SessionInv, EmailsUnique
<1>6. OwnersExist' /\ OwnersKnown'
  BY <1>1, <1>2, <1>3, AccountShape DEF SessionInv, OwnersExist, OwnersKnown
<1>7. ASSUME NEW v \in User, NEW e, NEW late, Current(v, e, late)
      PROVE  Current(v, e, late)'
  BY <1>1, <1>2, <1>7, AccountShape DEF Current
<1>8. SessionsCurrent'
  <2> SUFFICES ASSUME NEW x \in Session, Issued(x)', ~sessions'[x].revoked
               PROVE  Current(sessions[x].user, sessions[x].epoch, sessions[x].late)'
    BY DEF SessionsCurrent
  <2>1. /\ Issued(x) /\ sessions'[x] = sessions[x] /\ sessions[x].user \in User
    BY <1>3
  <2>2. Current(sessions[x].user, sessions[x].epoch, sessions[x].late)
    BY <2>1 DEF SessionInv, SessionsCurrent
  <2> QED
    BY <1>7, <2>1, <2>2
<1>9. EndedAreDead'
  <2> SUFFICES ASSUME NEW x \in ended'
               PROVE  sessions'[x] # Absent /\ (Issued(x)' => sessions'[x].revoked)
    BY DEF EndedAreDead
  <2>1. CASE x \in Own(u)
    BY <1>3, <2>1, AccountShape DEF Own
  <2>2. CASE x \in ended /\ x \notin Own(u)
    BY <1>3, <2>2 DEF SessionInv, Typed, EndedAreDead
  <2> QED
    BY <1>1, <2>1, <2>2
<1>10. CallsOK'
  <2> SUFFICES ASSUME NEW q \in Process PROVE LoginOK(call[q])' /\ RequestOK(call[q])'
    BY DEF CallsOK
  <2>1. call[q] \in Calls /\ LoginOK(call[q]) /\ RequestOK(call[q])
    BY DEF SessionInv, Typed, CallsOK
  <2>2. CASE call'[q] = Idle
    BY <2>2 DEF Idle, LoginOK, RequestOK, Requests
  <2>3. CASE call'[q] = call[q]
    <3>1. LoginOK(call[q])'
      <4> SUFFICES ASSUME call[q].at = "create"
                   PROVE  Current(call[q].user, call[q].epoch, call[q].late)' /\ call[q].since <= now
        BY <1>1, <2>3 DEF LoginOK
      <4>1. call[q].user \in User
        BY <2>1, CallShapes DEF CreateCalls
      <4> QED
        BY <1>7, <2>1, <2>3, <4>1 DEF LoginOK
    <3>2. RequestOK(call[q])'
      <4>1. call[q].at \in Requests => call[q].session \in Session
        BY <2>1, CallShapes DEF RequestCalls
      <4>2. \A x \in Session : (Issued(x)' /\ Active(sessions[x].user)') =>
              Issued(x) /\ Active(sessions[x].user)
        BY <1>2, <1>3 DEF Active
      <4>3. \A x \in Session : x \in ended => x \in ended'
        BY <1>1
      <4> QED
        BY <1>1, <1>3, <2>1, <2>3, <4>1, <4>2, <4>3 DEF RequestOK, Requests
    <3> QED
      BY <3>1, <3>2
  <2> QED
    BY <2>2, <2>3
<1> QED
  BY <1>4, <1>5, <1>6, <1>8, <1>9, <1>10 DEF SessionInv

LEMMA RemovesKeep ==
  ASSUME SessionInv, NEW u \in User, RemoveByKey(u) \/ \E p \in Process : RemoveUser(p, u)
  PROVE  SessionInv'
<1>1. call \in [Process -> Calls]
  BY DEF SessionInv, Typed
<1>2. CASE RemoveByKey(u)
  BY <1>1, <1>2, DeleteKeeps DEF RemoveByKey
<1>3. ASSUME NEW p \in Process, RemoveUser(p, u) PROVE SessionInv'
  <2>1. DeleteUser(u) /\ call' = [call EXCEPT ![p] = Idle]
    BY <1>3 DEF RemoveUser, Goto
  <2>2. call' \in [Process -> Calls] /\ \A q \in Process : call'[q] \in {call[q], Idle}
    BY <1>1, <2>1, IdleIsOK
  <2> QED
    BY <2>1, <2>2, DeleteKeeps
<1> QED
  BY <1>2, <1>3

LEMMA TimePasses ==
  ASSUME SessionInv, Tick \/ UNCHANGED vars
  PROVE  SessionInv'
<1>1. /\ now <= now' /\ now' \in 0 .. MaxClock
      /\ UNCHANGED <<store, users, sessions, call, pending, ended>>
  BY SessionConstants DEF Tick, vars, SessionInv, Typed
<1>2. Typed'
  BY <1>1 DEF SessionInv, Typed
<1>3. EmailsUnique' /\ OwnersExist' /\ OwnersKnown' /\ EndedAreDead'
  BY <1>1 DEF SessionInv, EmailsUnique, OwnersExist, OwnersKnown, EndedAreDead, Exists, Issued
<1>4. SessionsCurrent'
  BY <1>1 DEF SessionInv, SessionsCurrent, Current, Exists, Issued
<1>5. CallsOK'
  <2> SUFFICES ASSUME NEW q \in Process PROVE LoginOK(call[q])' /\ RequestOK(call[q])'
    BY DEF CallsOK
  <2>1. call[q] \in Calls /\ LoginOK(call[q]) /\ RequestOK(call[q]) /\ call'[q] = call[q]
    BY <1>1 DEF SessionInv, Typed, CallsOK
  <2>2. call[q].at = "create" \/ call[q].at \in Requests => call[q].since \in Int
    BY <2>1, CallShapes, SessionConstants DEF CreateCalls, RequestCalls
  <2>3. now \in Int /\ now' \in Int
    BY <1>1, SessionConstants DEF SessionInv, Typed
  <2>4. (call[q].at = "create" \/ call[q].at \in Requests) /\ call[q].since <= now
          => call[q].since <= now'
    BY <1>1, <2>2, <2>3
  <2>5. LoginOK(call[q])'
    BY <1>1, <2>1, <2>4 DEF LoginOK, Current, Exists
  <2>6. RequestOK(call[q])'
    BY <1>1, <2>1, <2>4 DEF RequestOK, Active, Exists, Issued
  <2> QED
    BY <2>5, <2>6
<1> QED
  BY <1>2, <1>3, <1>4, <1>5 DEF SessionInv

LEMMA SessionStep == SessionInv /\ [Next]_vars => SessionInv'
<1> SUFFICES ASSUME SessionInv, [Next]_vars PROVE SessionInv'
  OBVIOUS
<1>1. CASE \E u \in User, email \in Email : CreateUser(u, email)
  BY <1>1, CreateUserKeeps
<1>2. CASE \E p \in Process, email \in Email : LoginReads(p, email)
  BY <1>2, LoginReadsKeeps
<1>3. CASE \E p \in Process, s \in Session : LoginCreates(p, s)
  BY <1>3, LoginCreatesKeeps
<1>4. CASE \E s \in Session : Logout(s)
  BY <1>4, LogoutKeeps
<1>5. CASE \E p \in Process : Authenticate(p) \/ Patch(p) \/ Leave(p)
  <2>1. ASSUME NEW p \in Process, Authenticate(p) PROVE SessionInv'
    BY <2>1, ArriveKeeps, ReadsKeep DEF Authenticate
  <2>2. ASSUME NEW p \in Process, Patch(p) PROVE SessionInv'
    BY <2>2, ProfileReadsKeeps, ProfileWritesKeeps, PatchChangesKeep, SetEnabledKeeps,
       RevokeKeeps DEF Patch, Command
  <2> QED
    BY <1>5, <2>1, <2>2, LeaveKeeps
<1>6. CASE (\E p \in Process, u \in User : RemoveUser(p, u)) \/ (\E u \in User : RemoveByKey(u))
  BY <1>6, RemovesKeep
<1> QED
  BY <1>1, <1>2, <1>3, <1>4, <1>5, <1>6, TimePasses DEF Next

LEMMA SessionInvariant == Spec => []SessionInv
BY SessionInit, SessionStep, PTL DEF Spec

LEMMA StoresAreTwo == Spec => [](store \in {"postgres", "memory"})
<1>1. Init => store \in {"postgres", "memory"}
  BY DEF Init
<1>2. [Next]_vars => store' = store
  <2>1. ASSUME NEW p \in Process, Authenticate(p) \/ Leave(p) PROVE store' = store
    BY <2>1 DEF Authenticate, Arrive, ReadsSession, ReadsOwner, Leave
  <2>2. ASSUME NEW p \in Process, Command(p) PROVE store' = store
    BY <2>2 DEF Command, SetPassword, SetDisabled, SetEnabled, RevokeUserSessions
  <2>3. ASSUME NEW p \in Process, Patch(p) PROVE store' = store
    BY <2>2, <2>3 DEF Patch, ProfileReads, ProfileWrites
  <2>4. ASSUME NEW u \in User, RemoveByKey(u) \/ \E p \in Process : RemoveUser(p, u)
        PROVE  store' = store
    BY <2>4 DEF RemoveByKey, RemoveUser, DeleteUser
  <2>5. ASSUME \/ \E u \in User, email \in Email : CreateUser(u, email)
               \/ \E p \in Process, email \in Email : LoginReads(p, email)
               \/ \E p \in Process, s \in Session : LoginCreates(p, s)
               \/ \E s \in Session : Logout(s)
               \/ Tick \/ UNCHANGED vars
        PROVE  store' = store
    BY <2>5 DEF CreateUser, LoginReads, LoginCreates, Logout, Tick, vars
  <2> QED
    BY <2>1, <2>3, <2>4, <2>5 DEF Next
<1>3. store \in {"postgres", "memory"} /\ [Next]_vars => (store \in {"postgres", "memory"})'
  BY <1>2
<1> QED
  BY <1>1, <1>3, PTL DEF Spec

(* The tables of the dashboard keep their types, no two operators share an *)
(* email although addresses are read and written in separate statements,   *)
(* and in Postgres every session belongs to an operator who is there.      *)
THEOREM TypeCorrect == Spec => []TypeOK
<1>1. SessionInv /\ store \in {"postgres", "memory"} => TypeOK
  BY DEF SessionInv, Typed, EmailsUnique, OwnersExist, TypeOK
<1> QED
  BY <1>1, SessionInvariant, StoresAreTwo, PTL

(* A session that holds an old epoch of its operator's account was created *)
(* by a login overtaken by the revocation, or waits for a revocation that  *)
(* has not run, for any number of logins, changes and requests at once.    *)
THEOREM OldSessionsAreExplained == Spec => []OldSessionsOnlyByRace
<1>1. SessionInv => OldSessionsOnlyByRace
  BY DEF SessionInv, SessionsCurrent, Current, OldSessionsOnlyByRace
<1> QED
  BY <1>1, SessionInvariant, PTL

(* No request is served on a session that had been ended, had expired or   *)
(* belonged to an operator who was off, when the request arrived, although *)
(* session and operator are read in two statements.                        *)
THEOREM OnlyTheLiveAreServed == Spec => []ServedWasLive
<1>1. SessionInv => ServedWasLive
  BY DEF SessionInv, CallsOK, RequestOK, Requests, ServedWasLive
<1> QED
  BY <1>1, SessionInvariant, PTL

=============================================================================
