-------------------------- MODULE MigrationProofs ---------------------------
(***************************************************************************)
(* Theorems about SchemaMigrations, for any processes, releases and files: *)
(* its state is well typed, no file takes effect more often than its       *)
(* record and the runs that broke off account for, the records are true,   *)
(* and nothing is built on a file that is missing or was edited.           *)
(*                                                                         *)
(* A run decides by the records it has read, not by those in the table:    *)
(* that the two agree from the file it has reached onwards is part of the  *)
(* invariant (WorkOK), and holds because only one run has the lock.        *)
(***************************************************************************)
EXTENDS SchemaMigrations, FiniteSetTheorems, TLAPS

-----------------------------------------------------------------------------
(***************************************************************************)
(* The inductive invariant                                                 *)
(***************************************************************************)

TablesOK ==
  /\ table \in Table /\ last \in Table
  /\ runs \in [Versions -> Nat]
  /\ broken \in [Versions -> 0 .. MaxBroken]
  /\ marked \subseteq Versions

(* A run starts at the first file and ends behind the last.                *)
RunOK(r) ==
  /\ r \in Runs \cup {Idle}
  /\ r # Idle => r.version <= Len(Files[r.release]) + 1
  /\ r.at \in {"waiting", "locked"} => r.version = 1

(* One run at a time has the lock.                                         *)
LockOK ==
  /\ proc \in [Process -> Runs \cup {Idle}]
  /\ \A p \in Process : RunOK(proc[p])
  /\ holders = {p \in Process : proc[p].at \in Holding}
  /\ \A p, q \in holders : p = q

(* What a run with the lock knows: the records of the files to come, that  *)
(* those behind it are its own (unless it only records), and, between the  *)
(* two halves of a marked file, that its effect was the last.              *)
WorkOK(r) ==
  /\ r.at \in {"next", "ran"} =>
       /\ \A v \in Versions : v >= r.version => r.applied[v] = table[v]
       /\ r.does = "up" => \A v \in 1 .. r.version - 1 : table[v] = Files[r.release][v]
  /\ r.at = "ran" =>
       /\ r.does = "up"
       /\ r.version \in DOMAIN Files[r.release]
       /\ table[r.version] = None
       /\ last[r.version] = Files[r.release][r.version]

WorkersOK == \A p \in Process : WorkOK(proc[p])

Running(v) == \E p \in Process : proc[p].at = "ran" /\ proc[p].version = v

(* RunsAccountedFor, where the lock lets at most one run be between effect *)
(* and record.                                                             *)
RunsBound ==
  \A v \in Versions :
    runs[v] <= broken[v] + (IF table[v] # None /\ v \notin marked THEN 1 ELSE 0)
                         + (IF Running(v) THEN 1 ELSE 0)

MarkedAreRecorded == \A v \in marked : table[v] # None

MigrationInv ==
  /\ TablesOK
  /\ LockOK
  /\ WorkersOK
  /\ RunsBound
  /\ MarkedAreRecorded
  /\ RecordIsTrue

-----------------------------------------------------------------------------
(***************************************************************************)
(* Files and runs                                                          *)
(***************************************************************************)

LEMMA FileTypes ==
  ASSUME NEW r \in Release
  PROVE  /\ DOMAIN Files[r] = 1 .. Len(Files[r])
         /\ Len(Files[r]) \in Nat
         /\ DOMAIN Files[r] \subseteq Versions
         /\ \A v \in DOMAIN Files[r] : Files[r][v] \in Content /\ Files[r][v] # None
<1>1. Files[r] \in Seq(Content)
  BY MigrationConstants
<1>2. DOMAIN Files[r] = 1 .. Len(Files[r]) /\ Len(Files[r]) \in Nat
      /\ \A v \in DOMAIN Files[r] : Files[r][v] \in Content
  BY <1>1
<1>3. DOMAIN Files[r] \subseteq Versions
  BY DEF Versions
<1> QED
  BY <1>2, <1>3, MigrationConstants

LEMMA IdleIsOK == RunOK(Idle) /\ WorkOK(Idle) /\ Idle.at = "idle" /\ Idle \notin Runs
                  /\ Idle.at \notin Holding
BY DEF RunOK, WorkOK, Idle, Runs, Holding

(* A run that may be at a file.                                            *)
LEMMA RunShape ==
  ASSUME LockOK, NEW p \in Process, proc[p] # Idle
  PROVE  /\ proc[p] \in Runs
         /\ proc[p].at \in Stages /\ proc[p].does \in {"up", "baseline"}
         /\ proc[p].release \in Release /\ proc[p].version \in Nat \ {0}
         /\ proc[p].version <= Len(Files[proc[p].release]) + 1
         /\ proc[p].applied \in Table
BY DEF LockOK, RunOK, Runs

LEMMA NextFile ==
  ASSUME LockOK, NEW p \in Process, proc[p].at \in {"next", "ran"},
         proc[p].version \in DOMAIN Files[proc[p].release]
  PROVE  /\ proc[p] # Idle
         /\ proc[p].version \in Versions
         /\ File(p) \in Content /\ File(p) # None
         /\ proc[p].version + 1 <= Len(Files[proc[p].release]) + 1
<1>1. proc[p] # Idle
  BY DEF Idle
<1> QED
  BY <1>1, RunShape, FileTypes DEF File

LEMMA MigrationInit == Init => MigrationInv
<1> SUFFICES ASSUME Init PROVE MigrationInv
  OBVIOUS
<1>1. /\ \A v \in Versions : table[v] = None /\ runs[v] = 0 /\ broken[v] = 0
      /\ \A p \in Process : proc[p] = Idle
      /\ holders = {} /\ marked = {}
  BY DEF Init
<1>2. TablesOK
  BY MigrationConstants DEF Init, TablesOK, Table
<1>3. LockOK
  BY <1>1, IdleIsOK DEF Init, LockOK, RunOK
<1> QED
  BY <1>1, <1>2, <1>3, IdleIsOK DEF MigrationInv, WorkersOK, RunsBound, MarkedAreRecorded,
    RecordIsTrue

-----------------------------------------------------------------------------
(***************************************************************************)
(* Steps                                                                   *)
(***************************************************************************)

(* A step takes one run to r; it has the lock if it writes a table.        *)
Moves(p, r) ==
  /\ proc' = [proc EXCEPT ![p] = r]
  /\ holders' = IF r.at \in Holding THEN holders \cup {p} ELSE holders \ {p}
  /\ r.at \in Holding => holders \subseteq {p}

LEMMA RunMoves ==
  ASSUME MigrationInv, NEW p \in Process, NEW r, RunOK(r), Moves(p, r),
         UNCHANGED <<table, last>> \/ p \in holders
  PROVE  /\ LockOK'
         /\ WorkOK(r)' => WorkersOK'
         /\ \A v : (p \in holders \/ r.at \in Holding)
                     => (Running(v)' <=> r.at = "ran" /\ r.version = v)
         /\ \A v : p \in holders
                     => (Running(v) <=> proc[p].at = "ran" /\ proc[p].version = v)
         /\ \A v : (proc[p].at # "ran" /\ r.at # "ran") => (Running(v)' <=> Running(v))
<1>1. /\ \A q \in Process : proc'[q] = IF q = p THEN r ELSE proc[q]
      /\ proc' \in [Process -> Runs \cup {Idle}]
  BY DEF Moves, MigrationInv, LockOK, RunOK
<1>2. LockOK'
  BY <1>1 DEF Moves, MigrationInv, LockOK, RunOK
<1>3. ASSUME NEW q \in Process, q # p, p \in holders \/ r.at \in Holding
      PROVE  proc[q].at \notin Holding
  BY <1>3 DEF Moves, MigrationInv, LockOK
<1>4. WorkOK(r)' => WorkersOK'
  <2> SUFFICES ASSUME WorkOK(r)', NEW q \in Process PROVE WorkOK(proc[q])'
    BY DEF WorkersOK
  <2>1. CASE q = p
    BY <1>1, <2>1 DEF WorkOK
  <2>2. CASE q # p
    <3>1. WorkOK(proc[q])
      BY DEF MigrationInv, WorkersOK
    <3> QED
      BY <1>1, <1>3, <2>2, <3>1 DEF WorkOK, Holding
  <2> QED
    BY <2>1, <2>2
<1> QED
  BY <1>1, <1>2, <1>3, <1>4 DEF Running, Holding

(* Steps that write no record.                                             *)
LEMMA KeepsRecords ==
  ASSUME MigrationInv, NEW p \in Process, NEW r, RunOK(r), Moves(p, r), WorkOK(r)',
         UNCHANGED <<table, runs, last, marked>>,
         broken' \in [Versions -> 0 .. MaxBroken],
         \A v \in Versions : /\ broken[v] <= broken'[v]
                             /\ Running(v) /\ ~Running(v)' => broken[v] + 1 <= broken'[v]
  PROVE  MigrationInv'
<1>1. LockOK' /\ WorkersOK'
  BY RunMoves
<1>2. TablesOK' /\ MarkedAreRecorded' /\ RecordIsTrue'
  BY DEF MigrationInv, TablesOK, MarkedAreRecorded, RecordIsTrue
<1>3. RunsBound'
  <2> SUFFICES ASSUME NEW v \in Versions
               PROVE  runs[v] <= broken'[v] + (IF table[v] # None /\ v \notin marked THEN 1 ELSE 0)
                                            + (IF Running(v)' THEN 1 ELSE 0)
    BY DEF RunsBound
  <2>1. runs[v] <= broken[v] + (IF table[v] # None /\ v \notin marked THEN 1 ELSE 0)
                             + (IF Running(v) THEN 1 ELSE 0)
    BY DEF MigrationInv, RunsBound
  <2>2. runs[v] \in Int /\ broken[v] \in Int /\ broken'[v] \in Int
    BY MigrationConstants DEF MigrationInv, TablesOK
  <2>3. /\ broken[v] <= broken'[v]
        /\ Running(v) /\ ~Running(v)' => broken[v] + 1 <= broken'[v]
    OBVIOUS
  <2> QED
    BY <2>1, <2>2, <2>3
<1> QED
  BY <1>1, <1>2, <1>3 DEF MigrationInv

LEMMA BrokenType ==
  ASSUME MigrationInv
  PROVE  /\ broken \in [Versions -> 0 .. MaxBroken]
         /\ \A v \in Versions : broken[v] \in Int /\ broken[v] <= broken[v]
BY MigrationConstants DEF MigrationInv, TablesOK

(* A run that has the lock.                                                *)
LEMMA HasLock ==
  ASSUME MigrationInv, NEW p \in Process, proc[p].at \in Holding
  PROVE  /\ p \in holders /\ holders \subseteq {p} /\ proc[p] # Idle
         /\ holders \cup {p} = holders
BY IdleIsOK DEF MigrationInv, LockOK

LEMMA BeginKeeps ==
  ASSUME MigrationInv, NEW p \in Process, NEW does \in {"up", "baseline"}, NEW r \in Release,
         Begin(p, does, r)
  PROVE  MigrationInv'
<1> PICK run : run = [at |-> "waiting", does |-> does, release |-> r,
                   version |-> 1, applied |-> [v \in Versions |-> None]]
  OBVIOUS
<1>1. RunOK(run) /\ run.at = "waiting"
  <2>1. [v \in Versions |-> None] \in Table
    BY DEF Table
  <2>2. run \in Runs
    BY <2>1 DEF Runs, Stages
  <2> QED
    BY <2>2, FileTypes DEF RunOK
<1>2. p \notin holders /\ proc[p].at = "idle"
  BY IdleIsOK DEF Begin, MigrationInv, LockOK
<1>3. Moves(p, run)
  BY <1>1, <1>2 DEF Begin, Moves, Holding
<1>4. WorkOK(run)'
  BY DEF WorkOK
<1>5. UNCHANGED <<table, runs, last, broken, marked>>
  BY DEF Begin
<1>6. \A v \in Versions : Running(v)' <=> Running(v)
  BY <1>1, <1>2, <1>3, <1>5, RunMoves
<1> QED
  BY <1>1, <1>3, <1>4, <1>5, <1>6, BrokenType, KeepsRecords

LEMMA LockKeeps ==
  ASSUME MigrationInv, NEW p \in Process, Lock(p)
  PROVE  MigrationInv'
<1> PICK run : run = [proc[p] EXCEPT !.at = "locked"]
  OBVIOUS
<1>1. proc[p] # Idle /\ proc[p].at = "waiting"
  BY DEF Lock, Idle
<1>2. /\ RunOK(run) /\ run.at = "locked"
  <2>1. proc[p] \in Runs /\ RunOK(proc[p]) /\ run \in Runs
    BY <1>1 DEF MigrationInv, LockOK, RunOK, Runs, Stages
  <2> QED
    BY <1>1, <2>1 DEF RunOK, Runs
<1>3. Moves(p, run)
  BY <1>2 DEF Lock, Goto, Moves, Holding
<1>4. WorkOK(run)'
  BY <1>2 DEF WorkOK
<1>5. UNCHANGED <<table, runs, last, broken, marked>>
  BY DEF Lock
<1>6. \A v \in Versions : Running(v)' <=> Running(v)
  BY <1>1, <1>2, <1>3, <1>5, RunMoves
<1> QED
  BY <1>2, <1>3, <1>4, <1>5, <1>6, BrokenType, KeepsRecords

LEMMA ReadKeeps ==
  ASSUME MigrationInv, NEW p \in Process, ReadApplied(p)
  PROVE  MigrationInv'
<1> PICK run : run = [proc[p] EXCEPT !.at = "next", !.applied = table]
  OBVIOUS
<1>1. proc[p].at = "locked" /\ proc[p].at \in Holding
  BY DEF ReadApplied, Holding
<1>2. /\ RunOK(run) /\ run.at = "next" /\ run.version = 1 /\ run.applied = table
  <2>1. proc[p] \in Runs /\ RunOK(proc[p])
    BY <1>1, HasLock DEF MigrationInv, LockOK, RunOK
  <2>2. run \in Runs
    BY <2>1 DEF Runs, Stages, MigrationInv, TablesOK
  <2> QED
    BY <1>1, <2>1, <2>2 DEF RunOK, Runs
<1>3. UNCHANGED <<table, runs, last, broken, marked>> /\ holders' = holders
  BY DEF ReadApplied
<1>4. Moves(p, run)
  BY <1>1, <1>2, <1>3, HasLock DEF ReadApplied, Moves, Holding
<1>5. WorkOK(run)'
  BY <1>2, <1>3 DEF WorkOK
<1>6. \A v \in Versions : Running(v)' <=> Running(v)
  BY <1>1, <1>2, <1>3, <1>4, RunMoves
<1> QED
  BY <1>2, <1>3, <1>4, <1>5, <1>6, BrokenType, KeepsRecords

(* On to the next file.                                                    *)
LEMMA Advanced ==
  ASSUME MigrationInv, NEW p \in Process, proc[p].at \in {"next", "ran"},
         proc[p].version \in DOMAIN Files[proc[p].release], Advance(p),
         NEW run, run = [proc[p] EXCEPT !.at = "next", !.version = @ + 1],
         holders' = holders
  PROVE  /\ RunOK(run) /\ Moves(p, run) /\ p \in holders
         /\ run.at = "next" /\ run.version = proc[p].version + 1
         /\ run.does = proc[p].does /\ run.release = proc[p].release
         /\ run.applied = proc[p].applied
         /\ proc[p].version \in Nat \ {0} /\ proc[p].release \in Release
         /\ proc[p].does \in {"up", "baseline"}
         /\ proc[p].version \in Versions
<1>1. /\ proc[p] \in Runs /\ proc[p] # Idle /\ proc[p].version \in Versions
      /\ proc[p].version + 1 <= Len(Files[proc[p].release]) + 1
  BY NextFile, RunShape DEF MigrationInv
<1>2. /\ run \in Runs /\ run.at = "next" /\ run.version = proc[p].version + 1
      /\ run.does = proc[p].does /\ run.release = proc[p].release
      /\ run.applied = proc[p].applied /\ proc[p].version \in Nat \ {0}
      /\ proc[p].release \in Release /\ proc[p].does \in {"up", "baseline"}
  <2>1. proc[p].version \in Nat \ {0} /\ proc[p].version + 1 \in Nat \ {0} /\ "next" \in Stages
    BY <1>1 DEF Runs, Stages
  <2> QED
    BY <1>1, <2>1 DEF Runs
<1>3. RunOK(run)
  BY <1>1, <1>2 DEF RunOK
<1>4. p \in holders /\ holders \subseteq {p} /\ holders \cup {p} = holders
  BY HasLock DEF Holding
<1>5. proc' = [proc EXCEPT ![p] = run]
  BY DEF Advance
<1> QED
  BY <1>1, <1>2, <1>3, <1>4, <1>5 DEF Moves, Holding

(* What a run with the lock knows of the files before and after it.        *)
LEMMA WorkKnown ==
  ASSUME MigrationInv, NEW p \in Process, proc[p].at \in {"next", "ran"}
  PROVE  /\ \A v \in Versions : v >= proc[p].version => proc[p].applied[v] = table[v]
         /\ proc[p].does = "up" => \A v \in 1 .. proc[p].version - 1 :
                                     table[v] = Files[proc[p].release][v]
BY DEF MigrationInv, WorkersOK, WorkOK

LEMMA SkipKeeps ==
  ASSUME MigrationInv, NEW p \in Process, Skip(p)
  PROVE  MigrationInv'
<1> PICK run : run = [proc[p] EXCEPT !.at = "next", !.version = @ + 1]
  OBVIOUS
<1>1. /\ proc[p].at = "next" /\ proc[p].version \in DOMAIN Files[proc[p].release]
      /\ Advance(p) /\ holders' = holders
      /\ UNCHANGED <<table, runs, last, broken, marked>>
      /\ proc[p].applied[proc[p].version] = Files[proc[p].release][proc[p].version]
           \/ proc[p].does = "baseline"
  BY DEF Skip, HasNext, Known, File
<1>2. /\ RunOK(run) /\ Moves(p, run)
      /\ run.at = "next" /\ run.version = proc[p].version + 1
      /\ run.does = proc[p].does /\ run.release = proc[p].release
      /\ run.applied = proc[p].applied
      /\ proc[p].version \in Nat \ {0} /\ proc[p].version \in Versions
  BY <1>1, Advanced
<1>3. WorkOK(run)'
  <2>1. \A v \in Versions : v \in Int
    BY FileTypes DEF Versions
  <2>2. \A v \in Versions : v >= run.version => run.applied[v] = table'[v]
    BY <1>1, <1>2, <2>1, WorkKnown
  <2>3. ASSUME run.does = "up", NEW v \in 1 .. run.version - 1
        PROVE  table'[v] = Files[run.release][v]
    <3>1. v = proc[p].version \/ v \in 1 .. proc[p].version - 1
      BY <1>2, <2>3
    <3> QED
      BY <1>1, <1>2, <2>3, <3>1, WorkKnown
  <2> QED
    BY <1>2, <2>2, <2>3 DEF WorkOK
<1>4. \A v \in Versions : Running(v)' <=> Running(v)
  BY <1>1, <1>2, RunMoves
<1> QED
  BY <1>1, <1>2, <1>3, <1>4, BrokenType, KeepsRecords

(* A run that gives up, at an edited file, behind the last or on an error. *)
LEMMA LeavingKeeps ==
  ASSUME MigrationInv, NEW p \in Process, Drift(p) \/ Finish(p) \/ Fail(p)
  PROVE  MigrationInv'
<1> PICK run : run = [proc[p] EXCEPT !.at = "leaving"]
  OBVIOUS
<1>1. proc[p].at \in {"locked", "next", "ran"} /\ proc[p].at \in Holding
      /\ proc' = [proc EXCEPT ![p] = run] /\ holders' = holders
      /\ UNCHANGED <<table, runs, last, marked>>
  BY DEF Drift, Finish, Fail, HasNext, Goto, Holding
<1>2. (proc[p].at = "next" /\ UNCHANGED broken) \/ BreaksOff(p)
  BY DEF Drift, Finish, Fail, HasNext
<1>3. RunOK(run) /\ run.at = "leaving"
  <2>1. proc[p] \in Runs /\ RunOK(proc[p])
    BY <1>1, HasLock DEF MigrationInv, LockOK, RunOK
  <2>2. /\ run \in Runs /\ run.at = "leaving"
        /\ run.version = proc[p].version /\ run.release = proc[p].release
    BY <2>1 DEF Runs, Stages
  <2>3. proc[p] # Idle
    BY <2>1, IdleIsOK
  <2> QED
    BY <2>1, <2>2, <2>3 DEF RunOK
<1>4. Moves(p, run) /\ WorkOK(run)' /\ p \in holders
  BY <1>1, <1>3, HasLock DEF Moves, Holding, WorkOK
<1>5. \A v \in Versions : /\ ~Running(v)'
                          /\ Running(v) <=> proc[p].at = "ran" /\ proc[p].version = v
  BY <1>3, <1>4, RunMoves
<1>6. /\ broken' \in [Versions -> 0 .. MaxBroken]
      /\ \A v \in Versions : /\ broken[v] <= broken'[v]
                             /\ Running(v) /\ ~Running(v)' => broken[v] + 1 <= broken'[v]
  BY <1>2, <1>5, BrokenType, MigrationConstants DEF BreaksOff
<1> QED
  BY <1>1, <1>3, <1>4, <1>6, KeepsRecords

(* A run that is over, in order or not.                                    *)
LEMMA EndKeeps ==
  ASSUME MigrationInv, NEW p \in Process, Unlock(p) \/ Die(p)
  PROVE  MigrationInv'
<1>1. /\ proc' = [proc EXCEPT ![p] = Idle] /\ holders' = holders \ {p}
      /\ UNCHANGED <<table, runs, last, marked>>
      /\ (proc[p].at = "leaving" /\ UNCHANGED broken) \/ BreaksOff(p)
  BY DEF Unlock, Die
<1>2. Moves(p, Idle) /\ WorkOK(Idle)'
  BY <1>1, IdleIsOK DEF Moves, WorkOK
<1>3. \A v \in Versions : Running(v) /\ ~Running(v)' => proc[p].at = "ran" /\ proc[p].version = v
  <2>1. CASE proc[p].at = "ran"
    BY <1>2, <2>1, HasLock, RunMoves, IdleIsOK DEF Holding
  <2>2. CASE proc[p].at # "ran"
    BY <1>1, <1>2, <2>2, RunMoves, IdleIsOK
  <2> QED
    BY <2>1, <2>2
<1>4. /\ broken' \in [Versions -> 0 .. MaxBroken]
      /\ \A v \in Versions : /\ broken[v] <= broken'[v]
                             /\ Running(v) /\ ~Running(v)' => broken[v] + 1 <= broken'[v]
  BY <1>1, <1>3, BrokenType, MigrationConstants DEF BreaksOff
<1> QED
  BY <1>1, <1>2, <1>4, IdleIsOK, KeepsRecords

(* The run p is at the file of version v, which it finds unrecorded.       *)
LEMMA AtFile ==
  ASSUME MigrationInv, NEW p \in Process, proc[p].at \in {"next", "ran"},
         proc[p].version \in DOMAIN Files[proc[p].release],
         proc[p].at = "ran" \/ Known(p) = None
  PROVE  /\ table[proc[p].version] = None /\ proc[p].version \notin marked
         /\ proc[p].version \in Versions /\ proc[p].version \in Nat \ {0}
         /\ proc[p].release \in Release /\ proc[p].does \in {"up", "baseline"}
         /\ File(p) \in Content /\ File(p) # None
         /\ File(p) = Files[proc[p].release][proc[p].version]
         /\ p \in holders /\ \A v \in Versions : v \in Int
         /\ proc[p].at = "next" => \A v : ~Running(v)
         /\ proc[p].at = "ran" =>
              /\ proc[p].does = "up" /\ last[proc[p].version] = File(p)
              /\ \A v : Running(v) <=> v = proc[p].version
<1>1. /\ proc[p] # Idle /\ proc[p].version \in Versions
      /\ File(p) \in Content /\ File(p) # None
      /\ proc[p].release \in Release /\ proc[p].does \in {"up", "baseline"}
      /\ proc[p].version \in Nat \ {0}
  BY NextFile, RunShape DEF MigrationInv
<1>2. table[proc[p].version] = None
  BY <1>1, WorkKnown DEF Known, MigrationInv, WorkersOK, WorkOK
<1>3. proc[p].version \notin marked
  BY <1>2 DEF MigrationInv, MarkedAreRecorded
<1>4. p \in holders /\ \A q \in Process : proc[q].at = "ran" => q = p
  BY HasLock DEF Holding, MigrationInv, LockOK
<1>5. \A v \in Versions : v \in Int
  BY FileTypes DEF Versions
<1>6. /\ proc[p].at = "next" => \A v : ~Running(v)
      /\ proc[p].at = "ran" => \A v : Running(v) <=> v = proc[p].version
  BY <1>4 DEF Running
<1>7. proc[p].at = "ran" => proc[p].does = "up" /\ last[proc[p].version] = File(p)
  BY DEF MigrationInv, WorkersOK, WorkOK, File
<1> QED
  BY <1>1, <1>2, <1>3, <1>4, <1>5, <1>6, <1>7 DEF File

(* A record is written and the run goes on behind it.                      *)
LEMMA RecordingKeeps ==
  ASSUME MigrationInv, NEW p \in Process, proc[p].at \in {"next", "ran"},
         proc[p].version \in DOMAIN Files[proc[p].release],
         proc[p].at = "ran" \/ Known(p) = None,
         Advance(p), UNCHANGED <<holders, broken>>,
         table' = [table EXCEPT ![proc[p].version] = File(p)],
         NEW n \in {0, 1}, runs' = [runs EXCEPT ![proc[p].version] = @ + n],
         last' \in Table,
         \A v \in Versions : v # proc[p].version => last'[v] = last[v],
         \/ marked' = marked \cup {proc[p].version} /\ n = 0 /\ proc[p].at = "next"
         \/ /\ marked' = marked /\ last'[proc[p].version] = File(p)
            /\ proc[p].at = "next" \/ n = 0
  PROVE  MigrationInv'
<1> DEFINE w == proc[p].version
<1> PICK run : run = [proc[p] EXCEPT !.at = "next", !.version = @ + 1]
  OBVIOUS
<1>1. /\ table[w] = None /\ w \notin marked /\ w \in Versions /\ w \in Nat \ {0}
      /\ File(p) \in Content /\ File(p) # None
      /\ File(p) = Files[proc[p].release][proc[p].version]
      /\ p \in holders /\ \A v \in Versions : v \in Int
      /\ \A v : Running(v) => proc[p].at = "ran" /\ v = w
  BY AtFile
<1>2. /\ RunOK(run) /\ Moves(p, run)
      /\ run.at = "next" /\ run.version = w + 1
      /\ run.does = proc[p].does /\ run.release = proc[p].release
      /\ run.applied = proc[p].applied
  BY Advanced
<1>3. /\ table'[w] = File(p) /\ table' \in Table
      /\ \A v \in Versions : v # w => table'[v] = table[v]
  BY <1>1 DEF MigrationInv, TablesOK, Table
<1>4. WorkOK(run)'
  <2>1. ASSUME NEW v \in Versions, v >= run.version
        PROVE  run.applied[v] = table'[v]
    <3>1. v \in Int /\ v >= w /\ v # w
      BY <1>1, <1>2, <2>1
    <3>2. proc[p].applied[v] = table[v]
      BY <1>1, <3>1, WorkKnown
    <3> QED
      BY <1>2, <1>3, <3>1, <3>2
  <2>2. ASSUME run.does = "up", NEW v \in 1 .. run.version - 1
        PROVE  table'[v] = Files[run.release][v]
    <3>1. CASE v = w
      BY <1>1, <1>2, <1>3, <3>1
    <3>2. CASE v # w
      <4>1. v \in 1 .. w - 1
        BY <1>1, <1>2, <3>2
      <4>2. table[v] = Files[run.release][v]
        BY <1>2, <2>2, <4>1, WorkKnown
      <4>3. v \in Versions
        BY <1>1, <4>1, FileTypes, AtFile
      <4> QED
        BY <1>3, <3>2, <4>2, <4>3
    <3> QED
      BY <3>1, <3>2
  <2> QED
    BY <1>2, <2>1, <2>2 DEF WorkOK
<1>5. LockOK' /\ WorkersOK' /\ \A v : ~Running(v)'
  BY <1>1, <1>2, <1>4, RunMoves
<1>6. /\ runs' \in [Versions -> Nat] /\ runs'[w] = runs[w] + n
      /\ \A v \in Versions : runs[v] \in Nat /\ (v # w => runs'[v] = runs[v])
  BY <1>1 DEF MigrationInv, TablesOK
<1>7. TablesOK'
  BY <1>1, <1>3, <1>6 DEF MigrationInv, TablesOK
<1>8. MarkedAreRecorded'
  BY <1>1, <1>3 DEF MigrationInv, MarkedAreRecorded, TablesOK
<1>9. RecordIsTrue'
  BY <1>1, <1>3 DEF MigrationInv, RecordIsTrue
<1>10. RunsBound'
  <2> SUFFICES ASSUME NEW v \in Versions
               PROVE  runs'[v] <= broken[v] + (IF table'[v] # None /\ v \notin marked' THEN 1 ELSE 0)
    BY <1>5, BrokenType DEF RunsBound
  <2>1. runs[v] <= broken[v] + (IF table[v] # None /\ v \notin marked THEN 1 ELSE 0)
                             + (IF Running(v) THEN 1 ELSE 0)
    BY DEF MigrationInv, RunsBound
  <2>2. runs[v] \in Nat /\ broken[v] \in Int
    BY <1>6, BrokenType
  <2>3. CASE v # w
    <3>1. ~Running(v) /\ runs'[v] = runs[v] /\ table'[v] = table[v]
          /\ (v \in marked' <=> v \in marked)
      BY <1>1, <1>3, <1>6, <2>3
    <3> QED
      BY <2>1, <2>2, <3>1
  <2>4. CASE v = w
    <3>1. runs[v] <= broken[v] + (IF Running(v) THEN 1 ELSE 0)
      BY <1>1, <2>1, <2>2, <2>4
    <3>2. CASE marked' = marked \cup {w} /\ n = 0 /\ proc[p].at = "next"
      <4>1. v \in marked' /\ runs'[v] = runs[v]
        BY <1>6, <2>2, <2>4, <3>2
      <4>2. proc[p].at = "next" => ~Running(v)
        BY <1>1
      <4> QED
        BY <2>2, <3>1, <3>2, <4>1, <4>2
    <3>3. CASE marked' = marked /\ (proc[p].at = "next" \/ n = 0)
      <4>1. v \notin marked' /\ table'[v] # None /\ runs'[v] = runs[v] + n
        BY <1>1, <1>3, <1>6, <2>4, <3>3
      <4>2. ~Running(v) \/ n = 0
        BY <1>1, <3>3
      <4> QED
        BY <2>2, <3>1, <4>1, <4>2
    <3> QED
      BY <3>2, <3>3
  <2> QED
    BY <2>3, <2>4
<1> QED
  BY <1>5, <1>7, <1>8, <1>9, <1>10 DEF MigrationInv

LEMMA ApplyKeeps ==
  ASSUME MigrationInv, NEW p \in Process, ApplyInTx(p)
  PROVE  MigrationInv'
<1> DEFINE w == proc[p].version
<1>1. /\ proc[p].at = "next" /\ w \in DOMAIN Files[proc[p].release]
      /\ Known(p) = None /\ Advance(p) /\ UNCHANGED <<holders, broken, marked>>
      /\ runs' = [runs EXCEPT ![w] = @ + 1] /\ last' = [last EXCEPT ![w] = File(p)]
      /\ table' = [table EXCEPT ![w] = File(p)]
  BY DEF ApplyInTx, HasNext, TakesEffect
<1>2. w \in Versions /\ File(p) \in Content
  BY <1>1, AtFile
<1>3. /\ last' \in Table /\ last'[w] = File(p)
      /\ \A v \in Versions : v # w => last'[v] = last[v]
  BY <1>1, <1>2 DEF MigrationInv, TablesOK, Table
<1> HIDE DEF w
<1> QED
  BY <1>1, <1>3, RecordingKeeps DEF w

LEMMA RecordKeeps ==
  ASSUME MigrationInv, NEW p \in Process, Record(p)
  PROVE  MigrationInv'
<1>1. /\ proc[p].at = "ran" /\ proc[p].version \in DOMAIN Files[proc[p].release]
      /\ Advance(p) /\ UNCHANGED <<holders, runs, last, broken, marked>>
  BY DEF Record, MigrationInv, WorkersOK, WorkOK
<1>2. /\ table[proc[p].version] = None /\ proc[p].version \in Versions
      /\ last[proc[p].version] = File(p)
  BY <1>1, AtFile
<1>3. table' = [table EXCEPT ![proc[p].version] = File(p)]
  BY <1>2 DEF Record, Recorded, MigrationInv, TablesOK, Table
<1>4. runs' = [runs EXCEPT ![proc[p].version] = @ + 0] /\ last' \in Table
  BY <1>1, <1>2 DEF MigrationInv, TablesOK
<1> QED
  BY <1>1, <1>2, <1>3, <1>4, RecordingKeeps

LEMMA BaselineKeeps ==
  ASSUME MigrationInv, NEW p \in Process, BaselineRecords(p)
  PROVE  MigrationInv'
<1>1. /\ proc[p].at = "next" /\ proc[p].version \in DOMAIN Files[proc[p].release]
      /\ Known(p) = None /\ Advance(p) /\ UNCHANGED <<holders, runs, last, broken>>
  BY DEF BaselineRecords, HasNext
<1>2. table[proc[p].version] = None /\ proc[p].version \in Versions
  BY <1>1, AtFile
<1>3. table' = [table EXCEPT ![proc[p].version] = File(p)]
  BY <1>2 DEF BaselineRecords, Recorded, MigrationInv, TablesOK, Table
<1>4. runs' = [runs EXCEPT ![proc[p].version] = @ + 0] /\ last' \in Table
  BY <1>1, <1>2 DEF MigrationInv, TablesOK
<1>5. marked' = marked \cup {proc[p].version}
  BY <1>2 DEF BaselineRecords
<1> QED
  BY <1>1, <1>3, <1>4, <1>5, RecordingKeeps

(* A marked file has taken effect and is not yet on record.                *)
LEMMA RunSqlKeeps ==
  ASSUME MigrationInv, NEW p \in Process, RunSql(p)
  PROVE  MigrationInv'
<1> DEFINE w == proc[p].version
<1> PICK run : run = [proc[p] EXCEPT !.at = "ran"]
  OBVIOUS
<1>1. /\ proc[p].at = "next" /\ proc[p].at \in Holding /\ w \in DOMAIN Files[proc[p].release]
      /\ Known(p) = None /\ proc[p].does = "up" /\ UNCHANGED <<table, holders, broken, marked>>
      /\ runs' = [runs EXCEPT ![w] = @ + 1] /\ last' = [last EXCEPT ![w] = File(p)]
      /\ proc' = [proc EXCEPT ![p] = run]
  BY DEF RunSql, HasNext, TakesEffect, Goto, Holding
<1>2. /\ table[w] = None /\ w \notin marked /\ w \in Versions /\ File(p) \in Content
      /\ File(p) = Files[proc[p].release][proc[p].version]
      /\ p \in holders /\ \A v : ~Running(v)
  BY <1>1, AtFile
<1>3. /\ RunOK(run) /\ run.at = "ran" /\ run.version = w /\ run.does = "up"
      /\ run.release = proc[p].release /\ run.applied = proc[p].applied
  <2>1. proc[p] \in Runs /\ RunOK(proc[p]) /\ proc[p] # Idle
    BY <1>1, HasLock DEF MigrationInv, LockOK, RunOK
  <2>2. /\ run \in Runs /\ run.at = "ran" /\ run.version = w /\ run.does = proc[p].does
        /\ run.release = proc[p].release /\ run.applied = proc[p].applied
    BY <2>1 DEF Runs, Stages
  <2> QED
    BY <1>1, <2>1, <2>2 DEF RunOK
<1>4. Moves(p, run)
  BY <1>1, <1>3, HasLock DEF Moves, Holding
<1>5. /\ last' \in Table /\ last'[w] = File(p)
      /\ runs' \in [Versions -> Nat] /\ runs'[w] = runs[w] + 1
      /\ \A v \in Versions : /\ runs[v] \in Nat
                             /\ v # w => runs'[v] = runs[v] /\ last'[v] = last[v]
  BY <1>1, <1>2 DEF MigrationInv, TablesOK, Table
<1>6. WorkOK(run)'
  <2>1. \A v \in Versions : v >= run.version => run.applied[v] = table'[v]
    BY <1>1, <1>3, WorkKnown
  <2>2. \A v \in 1 .. run.version - 1 : table'[v] = Files[run.release][v]
    BY <1>1, <1>3, WorkKnown
  <2>3. last'[run.version] = Files[run.release][run.version]
    BY <1>2, <1>3, <1>5
  <2> QED
    BY <1>1, <1>2, <1>3, <2>1, <2>2, <2>3 DEF WorkOK
<1>7. LockOK' /\ WorkersOK' /\ \A v : Running(v)' <=> v = w
  <2> HIDE DEF w
  <2>1. LockOK' /\ WorkersOK'
    BY <1>2, <1>3, <1>4, <1>6, RunMoves
  <2>2. \A v : Running(v)' <=> run.at = "ran" /\ run.version = v
    BY <1>2, <1>3, <1>4, RunMoves
  <2> QED
    BY <1>3, <2>1, <2>2
<1>8. TablesOK' /\ MarkedAreRecorded' /\ RecordIsTrue'
  <2>1. TablesOK' /\ MarkedAreRecorded'
    BY <1>1, <1>5 DEF MigrationInv, TablesOK, MarkedAreRecorded
  <2>2. RecordIsTrue'
    BY <1>1, <1>2, <1>5 DEF MigrationInv, RecordIsTrue
  <2> QED
    BY <2>1, <2>2
<1>9. RunsBound'
  <2> SUFFICES ASSUME NEW v \in Versions
               PROVE  runs'[v] <= broken[v] + (IF table[v] # None /\ v \notin marked THEN 1 ELSE 0)
                                            + (IF Running(v)' THEN 1 ELSE 0)
    BY <1>1 DEF RunsBound
  <2>1. runs[v] <= broken[v] + (IF table[v] # None /\ v \notin marked THEN 1 ELSE 0)
    BY <1>2, <1>5, BrokenType DEF MigrationInv, RunsBound
  <2>2. runs[v] \in Nat /\ broken[v] \in Int
    BY <1>5, BrokenType
  <2> QED
    BY <1>5, <1>7, <2>1, <2>2
<1> QED
  BY <1>7, <1>8, <1>9 DEF MigrationInv

LEMMA MigrationStep == MigrationInv /\ [Next]_vars => MigrationInv'
<1> SUFFICES ASSUME MigrationInv, [Next]_vars PROVE MigrationInv'
  OBVIOUS
<1>1. CASE UNCHANGED vars
  BY <1>1 DEF vars, MigrationInv, TablesOK, LockOK, RunOK, WorkersOK, WorkOK, RunsBound,
    Running, MarkedAreRecorded, RecordIsTrue
<1>2. ASSUME NEW p \in Process, NEW does \in {"up", "baseline"}, NEW r \in Release,
             Begin(p, does, r)
      PROVE  MigrationInv'
  BY <1>2, BeginKeeps
<1>3. ASSUME NEW p \in Process, Lock(p) \/ Step(p) \/ Fail(p) \/ Die(p)
      PROVE  MigrationInv'
  BY <1>3, LockKeeps, ReadKeeps, SkipKeeps, LeavingKeeps, ApplyKeeps, RunSqlKeeps, RecordKeeps,
    BaselineKeeps, EndKeeps DEF Step
<1> QED
  BY <1>1, <1>2, <1>3 DEF Next

-----------------------------------------------------------------------------
(***************************************************************************)
(* Theorems                                                                *)
(***************************************************************************)

(* The inductive invariant holds in every reachable state, whatever        *)
(* servers start, stop or lose the lock between two statements (Migrate).  *)
THEOREM MigrationInvariant == Spec => []MigrationInv
BY MigrationInit, MigrationStep, PTL DEF Spec

(* Every state of the program is of the declared types, no run passes the  *)
(* end of its files, and the lock is held by the runs at work.             *)
THEOREM TypeCorrect == Spec => []TypeOK
<1>1. MigrationInv => TypeOK
  BY DEF MigrationInv, TablesOK, LockOK, RunOK, TypeOK
<1> QED
  BY <1>1, MigrationInvariant, PTL

(* Apply and Baseline under the advisory lock: a file takes effect once    *)
(* for its record, and once more for every marked run that broke off.      *)
THEOREM RecordsAccountForRuns == Spec => []RunsAccountedFor
<1>1. MigrationInv => RunsAccountedFor
  <2> SUFFICES ASSUME MigrationInv, NEW v \in Versions
               PROVE  runs[v] <= broken[v]
                        + (IF table[v] # None /\ v \notin marked THEN 1 ELSE 0)
                        + Cardinality({p \in Process : proc[p].at = "ran" /\ proc[p].version = v})
    BY DEF RunsAccountedFor
  <2> DEFINE Between == {p \in Process : proc[p].at = "ran" /\ proc[p].version = v}
  <2>1. Cardinality(Between) = IF Running(v) THEN 1 ELSE 0
    <3>1. CASE ~Running(v)
      <4>1. Between = {}
        BY <3>1 DEF Running
      <4> QED
        BY <3>1, <4>1, FS_EmptySet
    <3>2. CASE Running(v)
      <4>1. PICK p \in Process : p \in Between
        BY <3>2 DEF Running
      <4>2. Between = {p}
        BY <4>1 DEF MigrationInv, LockOK, Holding
      <4> QED
        BY <3>2, <4>2, FS_Singleton
    <3> QED
      BY <3>1, <3>2
  <2>2. runs[v] <= broken[v] + (IF table[v] # None /\ v \notin marked THEN 1 ELSE 0)
                             + (IF Running(v) THEN 1 ELSE 0)
    BY DEF MigrationInv, RunsBound
  <2> QED
    BY <2>1, <2>2
<1> QED
  BY <1>1, MigrationInvariant, PTL

(* The checksum on record is that of the content that took effect last.    *)
THEOREM RecordsAreTrue == Spec => []RecordIsTrue
BY MigrationInvariant, PTL DEF MigrationInv

(* Up stops at an edited file, so that nothing later runs on top of it.    *)
THEOREM NothingBuiltOnEdits == Spec => BuiltInOrder
<1> DEFINE Built(p) ==
      (proc[p].at = "next" /\ runs' # runs /\ proc'[p] # proc[p])
        => \A v \in 1 .. proc[p].version - 1 : State(proc[p].release, v) = "applied"
<1>1. MigrationInv /\ [Next]_vars => [\A p \in Process : Built(p)]_vars
  <2> SUFFICES ASSUME MigrationInv, Next, NEW p \in Process, proc[p].at = "next",
                      runs' # runs, proc'[p] # proc[p],
                      NEW v \in 1 .. proc[p].version - 1
               PROVE  State(proc[p].release, v) = "applied"
    OBVIOUS
  <2>1. PICK q \in Process : ApplyInTx(q) \/ RunSql(q)
    BY DEF Next, Step, Begin, Lock, ReadApplied, Skip, Drift, Record, BaselineRecords, Finish,
      Unlock, Fail, Die
  <2>2. q = p
    BY <2>1 DEF ApplyInTx, RunSql, Advance, Goto, MigrationInv, LockOK
  <2>3. proc[p].does = "up" /\ proc[p].version \in DOMAIN Files[proc[p].release]
    BY <2>1, <2>2 DEF ApplyInTx, RunSql, HasNext
  <2>4. table[v] = Files[proc[p].release][v]
    BY <2>3, WorkKnown
  <2>5. Files[proc[p].release][v] # None
    <3>1. proc[p].release \in Release /\ proc[p].version \in Nat
      BY <2>3, NextFile, RunShape DEF MigrationInv
    <3>2. v \in DOMAIN Files[proc[p].release]
      BY <2>3, <3>1, FileTypes
    <3> QED
      BY <3>1, <3>2, FileTypes
  <2> QED
    BY <2>4, <2>5 DEF State
<1> QED
  BY <1>1, MigrationInvariant, PTL DEF Spec, BuiltInOrder

=============================================================================
