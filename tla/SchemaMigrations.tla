-------------------------- MODULE SchemaMigrations --------------------------
(***************************************************************************)
(* The migration runner: processes of several releases apply the numbered  *)
(* SQL files they were built with to one database, or record them without  *)
(* running them.                                                           *)
(*                                                                         *)
(*   migrate up         Up: lock, read schema_migrations, apply what is    *)
(*                      missing in the order of the files, unlock          *)
(*   migrate baseline   Baseline: the same, but records only               *)
(*                                                                         *)
(* A file runs in one transaction with its record, or, when it is marked   *)
(* so, as a statement of its own before the record is written.  The lock   *)
(* belongs to the database session and goes with it when a process dies.   *)
(***************************************************************************)
EXTENDS Integers, Sequences, FiniteSets

CONSTANTS
  Process,       \* runs of the command that can overlap
  Release,       \* builds of the program
  Content,       \* contents of a file, told apart by their checksum
  None,          \* no checksum
  Files,         \* Files[r]: the contents r was built with, by version
  NoTx,          \* versions whose file is marked "no-transaction"
  MaxBroken      \* bound on the runs that break off before their record

ASSUME MigrationConstants ==
  /\ None \notin Content
  /\ MaxBroken \in Nat
  /\ Files \in [Release -> Seq(Content)]

VARIABLES
  table,         \* schema_migrations: the checksum recorded for a version
  holders,       \* database sessions that hold the advisory lock
  proc,          \* proc[p]: what the run p is in the middle of
  runs,          \* runs[v]: how often a file of version v took effect
  last,          \* last[v]: the content that did so last
  broken,        \* broken[v]: how often that was not followed by a record
  marked         \* versions that Baseline recorded

vars == <<table, holders, proc, runs, last, broken, marked>>

-----------------------------------------------------------------------------
Versions == UNION {DOMAIN Files[r] : r \in Release}

Idle == [at |-> "idle"]

Stages == {"waiting", "locked", "next", "ran", "leaving"}

Table == [Versions -> Content \cup {None}]

Runs == [at : Stages, does : {"up", "baseline"}, release : Release,
         version : Nat \ {0}, applied : Table]

Holding == {"locked", "next", "ran", "leaving"}

(* A run looks at the files of its release one after the other, and ends   *)
(* behind the last.  The lock is held by the runs between Lock and Unlock. *)
TypeOK ==
  /\ table \in Table
  /\ proc \in [Process -> Runs \cup {Idle}]
  /\ runs \in [Versions -> Nat]
  /\ last \in Table
  /\ broken \in [Versions -> 0 .. MaxBroken]
  /\ marked \subseteq Versions
  /\ \A p \in Process :
       proc[p] # Idle => proc[p].version <= Len(Files[proc[p].release]) + 1
  /\ holders = {p \in Process : proc[p].at \in Holding}

(* What the command status reports of version v in a build r.              *)
State(r, v) ==
  CASE table[v] = None        -> "pending"
    [] table[v] = Files[r][v] -> "applied"
    [] OTHER                  -> "drifted"

Goto(p, stage) == proc' = [proc EXCEPT ![p].at = stage]

(* The file p is to look at next, and what it has read about it.           *)
HasNext(p) == proc[p].at = "next" /\ proc[p].version \in DOMAIN Files[proc[p].release]
File(p)    == Files[proc[p].release][proc[p].version]
Known(p)   == proc[p].applied[proc[p].version]

Advance(p) == proc' = [proc EXCEPT ![p].at = "next", ![p].version = @ + 1]

-----------------------------------------------------------------------------
Begin(p, does, r) ==
  /\ proc[p] = Idle
  /\ proc' = [proc EXCEPT ![p] = [at |-> "waiting", does |-> does, release |-> r,
                                  version |-> 1, applied |-> [v \in Versions |-> None]]]
  /\ UNCHANGED <<table, holders, runs, last, broken, marked>>

\* Mutant: every release has a lock of its own.
LockPerRelease(p) ==
  /\ proc[p].at = "waiting"
  /\ \A q \in holders : proc[q].release # proc[p].release
  /\ holders' = holders \cup {p}
  /\ Goto(p, "locked")
  /\ UNCHANGED <<table, runs, last, broken, marked>>

(* pg_advisory_lock                                                        *)
Lock(p) ==
  /\ proc[p].at = "waiting"
  /\ holders = {}
  /\ holders' = {p}
  /\ Goto(p, "locked")
  /\ UNCHANGED <<table, runs, last, broken, marked>>

(* ensureTable and appliedChecksums.                                       *)
ReadApplied(p) ==
  /\ proc[p].at = "locked"
  /\ proc' = [proc EXCEPT ![p].at = "next", ![p].applied = table]
  /\ UNCHANGED <<table, holders, runs, last, broken, marked>>

\* Mutant: an edited file counts as applied.
SkipRecorded(p) ==
  /\ HasNext(p)
  /\ Known(p) # None
  /\ Advance(p)
  /\ UNCHANGED <<table, holders, runs, last, broken, marked>>

(* Recorded; Baseline does not compare the checksum.                       *)
Skip(p) ==
  /\ HasNext(p)
  /\ Known(p) # None
  /\ Known(p) = File(p) \/ proc[p].does = "baseline"
  /\ Advance(p)
  /\ UNCHANGED <<table, holders, runs, last, broken, marked>>

\* Mutant: the run waits for somebody to repair the record.
DriftWaits(p) ==
  /\ HasNext(p)
  /\ Known(p) \notin {None, File(p)}
  /\ proc[p].does = "up"
  /\ UNCHANGED vars

(* The file was edited after it had been applied: Up stops here.           *)
Drift(p) ==
  /\ HasNext(p)
  /\ Known(p) \notin {None, File(p)}
  /\ proc[p].does = "up"
  /\ Goto(p, "leaving")
  /\ UNCHANGED <<table, holders, runs, last, broken, marked>>

TakesEffect(p) ==
  LET v == proc[p].version IN
  /\ runs' = [runs EXCEPT ![v] = @ + 1]
  /\ last' = [last EXCEPT ![v] = File(p)]

(* File and record in one transaction; a version that is on record makes   *)
(* the INSERT fail.                                                        *)
ApplyInTx(p) ==
  LET v == proc[p].version IN
  /\ HasNext(p) /\ v \notin NoTx
  /\ proc[p].does = "up"
  /\ Known(p) = None
  /\ table[v] = None
  /\ TakesEffect(p)
  /\ table' = [table EXCEPT ![v] = File(p)]
  /\ Advance(p)
  /\ UNCHANGED <<holders, broken, marked>>

\* Mutant: a marked file may be run again when it is on record unchanged.
RunSqlAgain(p) ==
  /\ HasNext(p) /\ proc[p].version \in NoTx
  /\ proc[p].does = "up"
  /\ Known(p) \in {None, File(p)}
  /\ TakesEffect(p)
  /\ Goto(p, "ran")
  /\ UNCHANGED <<table, holders, broken, marked>>

(* The first half of apply for a marked file.                              *)
RunSql(p) ==
  /\ HasNext(p) /\ proc[p].version \in NoTx
  /\ proc[p].does = "up"
  /\ Known(p) = None
  /\ TakesEffect(p)
  /\ Goto(p, "ran")
  /\ UNCHANGED <<table, holders, broken, marked>>

(* INSERT ... ON CONFLICT (version) DO NOTHING                             *)
Recorded(v, content) ==
  table' = [table EXCEPT ![v] = IF @ = None THEN content ELSE @]

Record(p) ==
  /\ proc[p].at = "ran"
  /\ Recorded(proc[p].version, File(p))
  /\ Advance(p)
  /\ UNCHANGED <<holders, runs, last, broken, marked>>

BaselineRecords(p) ==
  LET v == proc[p].version IN
  /\ HasNext(p)
  /\ proc[p].does = "baseline"
  /\ Known(p) = None
  /\ Recorded(v, File(p))
  /\ marked' = IF table[v] = None THEN marked \cup {v} ELSE marked
  /\ Advance(p)
  /\ UNCHANGED <<holders, runs, last, broken>>

(* Every file is dealt with.                                               *)
Finish(p) ==
  /\ proc[p].at = "next" /\ ~HasNext(p)
  /\ Goto(p, "leaving")
  /\ UNCHANGED <<table, holders, runs, last, broken, marked>>

(* A file took effect and p will not record it.                            *)
BreaksOff(p) ==
  IF proc[p].at = "ran"
  THEN /\ broken[proc[p].version] < MaxBroken
       /\ broken' = [broken EXCEPT ![proc[p].version] = @ + 1]
  ELSE UNCHANGED broken

(* A statement fails: the lock is given back and the command reports it.   *)
Fail(p) ==
  /\ proc[p].at \in {"locked", "next", "ran"}
  /\ BreaksOff(p)
  /\ Goto(p, "leaving")
  /\ UNCHANGED <<table, holders, runs, last, marked>>

\* Mutant: the lock is left to the caller.
LeavesLock(p) ==
  /\ proc[p].at = "leaving"
  /\ proc' = [proc EXCEPT ![p] = Idle]
  /\ UNCHANGED <<table, holders, runs, last, broken, marked>>

(* The deferred pg_advisory_unlock.                                        *)
Unlock(p) ==
  /\ proc[p].at = "leaving"
  /\ holders' = holders \ {p}
  /\ proc' = [proc EXCEPT ![p] = Idle]
  /\ UNCHANGED <<table, runs, last, broken, marked>>

(* The process or its session dies; Postgres frees the session's lock.     *)
Die(p) ==
  /\ proc[p] # Idle
  /\ BreaksOff(p)
  /\ holders' = holders \ {p}
  /\ proc' = [proc EXCEPT ![p] = Idle]
  /\ UNCHANGED <<table, runs, last, marked>>

Init ==
  /\ table = [v \in Versions |-> None]
  /\ holders = {}
  /\ proc = [p \in Process |-> Idle]
  /\ runs = [v \in Versions |-> 0]
  /\ last = [v \in Versions |-> None]
  /\ broken = [v \in Versions |-> 0]
  /\ marked = {}

(* What a run does by itself once it has the lock.                         *)
Step(p) ==
  \/ ReadApplied(p)
  \/ Skip(p) \/ Drift(p)
  \/ ApplyInTx(p)
  \/ RunSql(p) \/ Record(p)
  \/ BaselineRecords(p)
  \/ Finish(p)
  \/ Unlock(p)

Next ==
  \E p \in Process :
    \/ \E does \in {"up", "baseline"}, r \in Release : Begin(p, does, r)
    \/ Lock(p)
    \/ Step(p)
    \/ Fail(p)
    \/ Die(p)

Spec == Init /\ [][Next]_vars

(* A process that has begun goes on, and Postgres serves the waiters of a  *)
(* lock in turn: who waits is passed over only finitely often.             *)
Fairness == \A p \in Process : WF_vars(Step(p)) /\ SF_vars(Lock(p))

FairSpec == Spec /\ Fairness

-----------------------------------------------------------------------------
(* No file takes effect twice, except a marked one whose earlier run broke *)
(* off between its effect and its record.                                  *)
RunsAccountedFor ==
  \A v \in Versions :
    runs[v] <= broken[v]
      + (IF table[v] # None /\ v \notin marked THEN 1 ELSE 0)
      + Cardinality({p \in Process : proc[p].at = "ran" /\ proc[p].version = v})

(* The recorded checksum is that of the content that ran last, unless the  *)
(* version was recorded without running it.                                *)
RecordIsTrue ==
  \A v \in Versions : table[v] # None => v \in marked \/ table[v] = last[v]

(* A file takes effect only when every earlier file of the same release is *)
(* on record with the same content: nothing is built on an edited file.    *)
BuiltInOrder ==
  [][\A p \in Process :
       (proc[p].at = "next" /\ runs' # runs /\ proc'[p] # proc[p])
         => \A v \in 1 .. proc[p].version - 1 : State(proc[p].release, v) = "applied"]_vars

(* Every run ends: none waits for ever behind one that died, failed or     *)
(* found an edited file.                                                   *)
EveryRunEnds ==
  \A p \in Process : proc[p].at = "waiting" ~> proc[p] = Idle

=============================================================================
