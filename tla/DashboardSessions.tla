------------------------- MODULE DashboardSessions -------------------------
(***************************************************************************)
(* Operators of the dashboard, their login sessions, and the handlers that *)
(* end a session early.                                                    *)
(*                                                                         *)
(*   POST   /v1/auth/login           DashboardAuth.Login                   *)
(*   POST   /v1/auth/logout          DashboardAuth.Logout                  *)
(*   GET    /v1/auth/me, every /v1   DashboardAuth.Authenticate            *)
(*   POST   /v1/auth/users           DashboardAuth.CreateUser              *)
(*   PATCH  /v1/auth/users/{userId}  UpdateProfile, ChangePassword,        *)
(*                                   SetDisabled, in this order            *)
(*   DELETE /v1/auth/users/{userId}  DashboardAuth.DeleteUser              *)
(*   dashboarduser create | disable | enable | passwd                      *)
(*                                                                         *)
(* No handler runs in a transaction: every statement is a step, other      *)
(* handlers run between two of them, and a handler may stop after any.     *)
(* Sessions live in Postgres, whose foreign key ties them to an operator,  *)
(* or in memory, where nothing does.                                       *)
(***************************************************************************)
EXTENDS Integers

CONSTANTS
  User,          \* operator ids, never reused
  Session,       \* session ids, never reused
  Email,         \* login names
  Process,       \* requests and commands that can be in flight together
  MaxChanges,    \* bound on password changes and disablings of an operator
  MaxClock,      \* bound on the clock
  Lifetime       \* SessionLifetime, in ticks of the clock

ASSUME SessionConstants ==
  MaxChanges \in Nat /\ MaxClock \in Nat /\ Lifetime \in Nat \ {0}

VARIABLES
  store,         \* which implementation of store.DashboardUsers serves
  now,           \* the clock
  users,         \* dashboard_user, by id
  sessions,      \* dashboard_session, by id
  call,          \* call[p]: what p is in the middle of
  pending,       \* operators with a change whose revocation has not run yet
  ended          \* sessions that an answered request has promised to end

vars == <<store, now, users, sessions, call, pending, ended>>

-----------------------------------------------------------------------------
Absent  == [row |-> "absent"]    \* the id is not used yet
Deleted == [row |-> "deleted"]

(* epoch counts the changes that are to end every session: a session holds *)
(* the epoch of the account its login has verified.                        *)
Account == [email : Email, enabled : BOOLEAN, epoch : 0 .. MaxChanges]

Login == [user : User, expires : 0 .. MaxClock + Lifetime, revoked : BOOLEAN,
          epoch : 0 .. MaxChanges, late : BOOLEAN]

Idle == [at |-> "idle"]

Calls == {Idle}
  \cup [at : {"create"}, user : User, epoch : 0 .. MaxChanges, since : 0 .. MaxClock,
        late : BOOLEAN]
  \cup [at : {"session", "owner", "served"}, session : Session, since : 0 .. MaxClock,
        ended : BOOLEAN, off : BOOLEAN]
  \cup [at : {"rename"}, user : User, email : Email]
  \cup [at : {"renamed", "password", "changed", "disable"}, user : User]

Exists(u) == users[u] \in Account
Issued(s) == sessions[s] \in Login
Active(u) == Exists(u) /\ users[u].enabled
Usable(s) == Issued(s) /\ ~sessions[s].revoked /\ now < sessions[s].expires

(* Emails are unique; in Postgres a session belongs to an existing row.    *)
TypeOK ==
  /\ store \in {"postgres", "memory"}
  /\ now \in 0 .. MaxClock
  /\ users \in [User -> Account \cup {Absent, Deleted}]
  /\ sessions \in [Session -> Login \cup {Absent, Deleted}]
  /\ call \in [Process -> Calls]
  /\ pending \subseteq User
  /\ ended \subseteq Session
  /\ \A u, v \in User :
       (Exists(u) /\ Exists(v) /\ users[u].email = users[v].email) => u = v
  /\ store = "postgres" => \A s \in Session : Issued(s) => Exists(sessions[s].user)

Own(u) == {s \in Session : Issued(s) /\ sessions[s].user = u}

Goto(p, c) == call' = [call EXCEPT ![p] = c]

-----------------------------------------------------------------------------
(* Login reads the account and verifies the password; a refusal changes    *)
(* nothing.                                                                *)
LoginReads(p, email) ==
  /\ call[p] = Idle
  /\ \E u \in User :
       /\ Active(u)
       /\ users[u].email = email
       /\ Goto(p, [at |-> "create", user |-> u, epoch |-> users[u].epoch,
                   since |-> now, late |-> FALSE])
  /\ UNCHANGED <<store, now, users, sessions, pending, ended>>

(* CreateSession: the table refuses a session of a deleted operator (500), *)
(* the map takes it.                                                       *)
LoginCreates(p, s) ==
  LET c == call[p] IN
  /\ c.at = "create"
  /\ sessions[s] = Absent
  /\ store = "postgres" => Exists(c.user)
  /\ \E made \in c.since .. now :
       sessions' = [sessions EXCEPT ![s] =
         [user |-> c.user, expires |-> made + Lifetime, revoked |-> FALSE,
          epoch |-> c.epoch, late |-> c.late]]
  /\ Goto(p, Idle)
  /\ UNCHANGED <<store, now, users, pending, ended>>

(* RevokeSession by the id inside the cookie; needs no live session.       *)
Logout(s) ==
  /\ sessions[s] # Absent
  /\ sessions' = [sessions EXCEPT ![s] =
       IF Issued(s) THEN [@ EXCEPT !.revoked = TRUE] ELSE @]
  /\ ended' = ended \cup {s}
  /\ UNCHANGED <<store, now, users, call, pending>>

-----------------------------------------------------------------------------
(* A request arrives with the cookie of session s.                         *)
Arrive(p, s) ==
  /\ call[p] = Idle
  /\ sessions[s] # Absent
  /\ Goto(p, [at |-> "session", session |-> s, since |-> now, ended |-> s \in ended,
              off |-> Issued(s) => ~Active(sessions[s].user)])
  /\ UNCHANGED <<store, now, users, sessions, pending, ended>>

\* Mutant: a revoked session is good until it expires.
ReadsAnySession(p) ==
  LET s == call[p].session IN
  /\ call[p].at = "session"
  /\ Issued(s)
  /\ now < sessions[s].expires
  /\ call' = [call EXCEPT ![p].at = "owner"]
  /\ UNCHANGED <<store, now, users, sessions, pending, ended>>

(* SessionByID and Session.Usable.                                         *)
ReadsSession(p) ==
  /\ call[p].at = "session"
  /\ Usable(call[p].session)
  /\ call' = [call EXCEPT ![p].at = "owner"]
  /\ UNCHANGED <<store, now, users, sessions, pending, ended>>

(* ByID and User.Active.                                                   *)
ReadsOwner(p) ==
  LET s == call[p].session IN
  /\ call[p].at = "owner"
  /\ Issued(s)
  /\ Active(sessions[s].user)
  /\ call' = [call EXCEPT ![p].at = "served"]
  /\ UNCHANGED <<store, now, users, sessions, pending, ended>>

(* 401 at either read, the end of a request, an error of the database, or  *)
(* the process stops: what was written stays, the rest never happens.      *)
Leave(p) ==
  /\ call[p] # Idle
  /\ Goto(p, Idle)
  /\ UNCHANGED <<store, now, users, sessions, pending, ended>>

-----------------------------------------------------------------------------
EmailFree(u, email) ==
  \A v \in User \ {u} : Exists(v) => users[v].email # email

CreateUser(u, email) ==
  /\ users[u] = Absent
  /\ EmailFree(u, email)
  /\ users' = [users EXCEPT ![u] = [email |-> email, enabled |-> TRUE, epoch |-> 0]]
  /\ UNCHANGED <<store, now, sessions, call, pending, ended>>

(* PATCH works through its body in the order profile, password, disabled   *)
(* and stops at the first error; which fields the body has is chosen as    *)
(* the steps come.  The commands are bodies of one field.                  *)
(*   renamed   the profile is written, more fields may follow              *)
(*   password  the password is set, its revocation comes next              *)
(*   changed   that revocation has run                                     *)
(*   disable   the operator is disabled, the revocation comes next         *)
Patching(p, u, before) ==
  \/ call[p] = Idle
  \/ call[p].at \in before /\ call[p].user = u

(* UpdateProfile writes the email of the body or, for a body with a name   *)
(* alone, the email it has read.                                           *)
ProfileReads(p, u, email) ==
  /\ call[p] = Idle
  /\ Exists(u)
  /\ Goto(p, [at |-> "rename", user |-> u, email |-> email])
  /\ UNCHANGED <<store, now, users, sessions, pending, ended>>

\* Mutant: the email of another operator may be taken.
ProfileWritesAny(p) ==
  LET c == call[p] IN
  /\ c.at = "rename"
  /\ Exists(c.user)
  /\ users' = [users EXCEPT ![c.user].email = c.email]
  /\ Goto(p, [at |-> "renamed", user |-> c.user])
  /\ UNCHANGED <<store, now, sessions, pending, ended>>

ProfileWrites(p) ==
  LET c == call[p] IN
  /\ c.at = "rename"
  /\ Exists(c.user)
  /\ EmailFree(c.user, c.email)
  /\ users' = [users EXCEPT ![c.user].email = c.email]
  /\ Goto(p, [at |-> "renamed", user |-> c.user])
  /\ UNCHANGED <<store, now, sessions, pending, ended>>

\* Mutant: the handler forgets to revoke.
SetPasswordOnly(p, u) ==
  /\ Patching(p, u, {"renamed"})
  /\ Exists(u)
  /\ users[u].epoch < MaxChanges
  /\ users' = [users EXCEPT ![u].epoch = @ + 1]
  /\ Goto(p, [at |-> "changed", user |-> u])
  /\ UNCHANGED <<store, now, sessions, pending, ended>>

SetPassword(p, u) ==
  /\ Patching(p, u, {"renamed"})
  /\ Exists(u)
  /\ users[u].epoch < MaxChanges
  /\ users' = [users EXCEPT ![u].epoch = @ + 1]
  /\ pending' = pending \cup {u}
  /\ Goto(p, [at |-> "password", user |-> u])
  /\ UNCHANGED <<store, now, sessions, ended>>

SetDisabled(p, u) ==
  /\ Patching(p, u, {"renamed", "changed"})
  /\ Exists(u)
  /\ users[u].epoch < MaxChanges
  /\ users' = [users EXCEPT ![u].enabled = FALSE, ![u].epoch = @ + 1]
  /\ pending' = pending \cup {u}
  /\ Goto(p, [at |-> "disable", user |-> u])
  /\ UNCHANGED <<store, now, sessions, ended>>

(* The requests for which operator u was off all along no longer are.      *)
SetEnabled(p, u) ==
  /\ Patching(p, u, {"renamed", "changed"})
  /\ Exists(u)
  /\ users' = [users EXCEPT ![u].enabled = TRUE]
  /\ call' = [q \in Process |->
       IF q = p THEN Idle
       ELSE IF call[q].at \in {"session", "owner"} /\ call[q].session \in Own(u)
       THEN [call[q] EXCEPT !.off = FALSE]
       ELSE call[q]]
  /\ UNCHANGED <<store, now, sessions, pending, ended>>

(* A login of u that has verified but not created its session is late from *)
(* here on.                                                                *)
Revoked(p, u) ==
  [q \in Process |->
     IF q = p THEN IF call[p].at = "password" THEN [at |-> "changed", user |-> u] ELSE Idle
     ELSE IF call[q].at = "create" /\ call[q].user = u
     THEN [call[q] EXCEPT !.late = TRUE]
     ELSE call[q]]

RevokeUserSessions(p) ==
  LET u == call[p].user IN
  /\ call[p].at \in {"password", "disable"}
  /\ sessions' = [s \in Session |->
       IF s \in Own(u) THEN [sessions[s] EXCEPT !.revoked = TRUE] ELSE sessions[s]]
  /\ pending' = pending \ {u}
  /\ ended' = ended \cup Own(u)
  /\ call' = Revoked(p, u)
  /\ UNCHANGED <<store, now, users>>

-----------------------------------------------------------------------------
(* The sessions of the operator go with the row.                           *)
DeleteUser(u) ==
  /\ Exists(u)
  /\ users' = [users EXCEPT ![u] = Deleted]
  /\ sessions' = [s \in Session |-> IF s \in Own(u) THEN Deleted ELSE sessions[s]]
  /\ ended' = ended \cup Own(u)
  /\ pending' = pending \ {u}
  /\ UNCHANGED <<store, now>>

(* removeUser asks once more who is calling; a session that has died since *)
(* the request was let in leaves no caller, and then nobody is "self".     *)
RemoveUser(p, u) ==
  LET s == call[p].session
      self == IF Usable(s) /\ Active(sessions[s].user)
              THEN {sessions[s].user} ELSE {}
  IN
  /\ call[p].at = "served"
  /\ u \notin self
  /\ DeleteUser(u)
  /\ Goto(p, Idle)

(* A caller with an API key has no session and may remove anybody.         *)
RemoveByKey(u) ==
  /\ DeleteUser(u)
  /\ UNCHANGED call

Tick ==
  /\ now < MaxClock
  /\ now' = now + 1
  /\ UNCHANGED <<store, users, sessions, call, pending, ended>>

Init ==
  /\ store \in {"postgres", "memory"}
  /\ now = 0
  /\ users = [u \in User |-> Absent]
  /\ sessions = [s \in Session |-> Absent]
  /\ call = [p \in Process |-> Idle]
  /\ pending = {}
  /\ ended = {}

Authenticate(p) ==
  \/ \E s \in Session : Arrive(p, s)
  \/ ReadsSession(p)
  \/ ReadsOwner(p)

(* The commands disable, enable and passwd do this much of a PATCH.        *)
Command(p) ==
  \/ \E u \in User : SetPassword(p, u) \/ SetDisabled(p, u) \/ SetEnabled(p, u)
  \/ RevokeUserSessions(p)

Patch(p) ==
  \/ \E u \in User, email \in Email : ProfileReads(p, u, email)
  \/ ProfileWrites(p)
  \/ Command(p)

Next ==
  \/ \E u \in User, email \in Email : CreateUser(u, email)
  \/ \E p \in Process, email \in Email : LoginReads(p, email)
  \/ \E p \in Process, s \in Session : LoginCreates(p, s)
  \/ \E s \in Session : Logout(s)
  \/ \E p \in Process : Authenticate(p) \/ Patch(p) \/ Leave(p)
  \/ \E p \in Process, u \in User : RemoveUser(p, u)
  \/ \E u \in User : RemoveByKey(u)
  \/ Tick

Spec == Init /\ [][Next]_vars

-----------------------------------------------------------------------------
(* A session that outlives the password or the account state it was opened *)
(* with belongs to a login that had verified before the revocation ran and *)
(* created its row after it, or the revocation never ran ("Seluruh sesi    *)
(* lamanya ikut dimatikan").                                               *)
OldSessionsOnlyByRace ==
  \A s \in Session :
    LET u == sessions[s].user IN
    (Issued(s) /\ ~sessions[s].revoked /\ Exists(u) /\ sessions[s].epoch # users[u].epoch)
      => sessions[s].late \/ u \in pending

(* A request is not served if, when it arrived, its session had been ended *)
(* by an answered logout, password change, disabling or removal, if it had *)
(* expired, or if its operator was off and was not enabled since.          *)
ServedWasLive ==
  \A p \in Process :
    call[p].at = "served" =>
      /\ ~call[p].ended
      /\ ~call[p].off
      /\ Issued(call[p].session) => call[p].since < sessions[call[p].session].expires

(* What the comments promise: nothing outlives a change that was carried   *)
(* out in full.                                                            *)
NoOldSessionSurvives ==
  \A s \in Session :
    LET u == sessions[s].user IN
    (Usable(s) /\ Active(u) /\ u \notin pending) => sessions[s].epoch = users[u].epoch

=============================================================================
