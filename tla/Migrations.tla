----------------------------- MODULE Migrations -----------------------------
(***************************************************************************)
(* MigrationRunner (database/Migrations.hpp): replicas of the service boot *)
(* against one PostgreSQL primary and each applies the migrations it ships *)
(* before it serves.  The advisory lock, the commit of a transaction and   *)
(* the session of a process that died are PostgreSQL's and are modelled as *)
(* the code relies on them.  The files of a replica have distinct          *)
(* versions; replicas of two releases may ship different ones.             *)
(***************************************************************************)
EXTENDS Naturals, FiniteSets

CONSTANTS
  Replica,    \* processes that boot
  Version,    \* versions of all migration files
  NoTxn,      \* the ones marked "-- migrate:no-transaction"
  Files,      \* the versions each replica ships, scan_migrations()
  MaxFaults,  \* bound on statements that fail and processes that die
  Nobody,     \* the advisory lock is free
  Orphan      \* it is held by the session of a process that died

ASSUME MigrationsAssumption ==
  /\ Version \subseteq Nat /\ NoTxn \subseteq Version
  /\ Files \in [Replica -> SUBSET Version]
  /\ MaxFaults \in Nat
  /\ Nobody \notin Replica \cup {Orphan} /\ Orphan \notin Replica

VARIABLES
  tracked,  \* table schema_migrations exists
  applied,  \* the versions it holds
  effects,  \* how often the SQL of each version has taken effect
  lock,     \* who holds advisory lock 4242424242
  pc,       \* where initialize() of each replica is
  todo,     \* the files a replica has still to go through
  orphans,  \* non-transactional statements that run on in dead sessions
  faults    \* failures so far

db   == <<tracked, applied, effects, lock, orphans>>
vars == <<tracked, applied, effects, lock, pc, todo, orphans, faults>>

(* pc: "down", "ensure" (before CREATE TABLE IF NOT EXISTS), "creating"    *)
(*     (the table was not there), "list", "walking" (in the loop over the  *)
(*     files), "locked" (has the lock), "apply" (not applied yet),         *)
(*     "record" (SQL done outside a transaction), "unlock", "up".          *)

Phase == {"down", "ensure", "creating", "list", "walking", "locked", "apply",
          "record", "unlock", "up"}

TypeOK ==
  /\ tracked \in BOOLEAN /\ applied \subseteq Version
  /\ effects \in [Version -> Nat] /\ orphans \subseteq NoTxn
  /\ lock \in Replica \cup {Nobody, Orphan}
  /\ pc \in [Replica -> Phase]
  /\ todo \in [Replica -> SUBSET Version]
  /\ faults \in 0..MaxFaults

Init ==
  /\ tracked = FALSE /\ applied = {} /\ effects = [v \in Version |-> 0]
  /\ lock = Nobody /\ orphans = {} /\ faults = 0
  /\ pc = [r \in Replica |-> "down"] /\ todo = [r \in Replica |-> {}]

Goto(r, l) == pc' = [pc EXCEPT ![r] = l]

\* A bug: files are taken in the order of the directory.
Unsorted(r, v) == v \in todo[r]

\* The file the loop is at: files are sorted by version.
Current(r, v) == v \in todo[r] /\ \A w \in todo[r] : v <= w
-----------------------------------------------------------------------------
(* ensure_tracking_table(), scan_migrations(), get_applied(): no lock.     *)

Boot(r) ==
  /\ pc[r] = "down" /\ Goto(r, "ensure")
  /\ UNCHANGED <<db, todo, faults>>

\* A bug: CREATE TABLE without IF NOT EXISTS.
CreatesAnyway(r) ==
  /\ pc[r] = "ensure" /\ Goto(r, "creating")
  /\ UNCHANGED <<db, todo, faults>>

LookForTable(r) ==
  /\ pc[r] = "ensure" /\ Goto(r, IF tracked THEN "list" ELSE "creating")
  /\ UNCHANGED <<db, todo, faults>>

\* IF NOT EXISTS looks first and creates later.  Of two replicas that both
\* found no table, the second fails on the catalog's unique index, with an
\* error that is_transient_pqxx_write does not retry: its boot fails.
CreateTable(r) ==
  /\ pc[r] = "creating" /\ tracked' = TRUE
  /\ Goto(r, IF tracked THEN "down" ELSE "list")
  /\ UNCHANGED <<applied, effects, lock, orphans, todo, faults>>

ListPending(r) ==
  /\ pc[r] = "list" /\ Goto(r, "walking")
  /\ todo' = [todo EXCEPT ![r] = Files[r] \ applied]
  /\ UNCHANGED <<db, faults>>
-----------------------------------------------------------------------------
(* initialize(): the loop.  One file is applied under the advisory lock.   *)

TakeLock(r) ==
  /\ pc[r] = "walking" /\ todo[r] # {} /\ lock = Nobody
  /\ lock' = r /\ Goto(r, "locked")
  /\ UNCHANGED <<tracked, applied, effects, orphans, todo, faults>>

\* A bug: the list read before the lock is trusted.
TrustsList(r) ==
  /\ pc[r] = "locked" /\ Goto(r, "apply")
  /\ UNCHANGED <<db, todo, faults>>

Recheck(r) ==
  /\ pc[r] = "locked"
  /\ \E v \in Version : Current(r, v)
                        /\ Goto(r, IF v \in applied THEN "unlock" ELSE "apply")
  /\ UNCHANGED <<db, todo, faults>>

\* execute_write: the SQL, the INSERT and the lock end with one commit.
\* When the answer to the commit is lost, the boot fails although it is done.
ApplyInTransaction(r) ==
  /\ pc[r] = "apply"
  /\ \E v \in Version \ NoTxn :
       /\ Current(r, v)
       /\ effects' = [effects EXCEPT ![v] = @ + 1]
       /\ applied' = applied \cup {v}
       /\ \/ Goto(r, "walking") /\ todo' = [todo EXCEPT ![r] = @ \ {v}]
             /\ UNCHANGED faults
          \/ Goto(r, "down") /\ faults < MaxFaults /\ faults' = faults + 1
             /\ UNCHANGED todo
  /\ lock' = Nobody
  /\ UNCHANGED <<tracked, orphans>>

\* A serialization failure or a deadlock: rolled back, and run again.
RetryTransaction(r) ==
  /\ pc[r] \in {"locked", "apply"} /\ faults < MaxFaults
  /\ \E v \in Version \ NoTxn : Current(r, v)
  /\ lock' = Nobody /\ Goto(r, "walking") /\ faults' = faults + 1
  /\ UNCHANGED <<tracked, applied, effects, orphans, todo>>

\* apply_no_transaction_: the statement commits by itself, then the INSERT.
RunStatement(r) ==
  /\ pc[r] = "apply"
  /\ \E v \in NoTxn : Current(r, v)
                      /\ effects' = [effects EXCEPT ![v] = @ + 1]
  /\ Goto(r, "record")
  /\ UNCHANGED <<tracked, applied, lock, orphans, todo, faults>>

Record(r) ==
  /\ pc[r] = "record" /\ Goto(r, "unlock")
  /\ \E v \in NoTxn : Current(r, v) /\ applied' = applied \cup {v}
  /\ UNCHANGED <<tracked, effects, lock, orphans, todo, faults>>

Unlock(r) ==
  /\ pc[r] = "unlock" /\ lock' = Nobody /\ Goto(r, "walking")
  /\ \E v \in Version : Current(r, v) /\ todo' = [todo EXCEPT ![r] = @ \ {v}]
  /\ UNCHANGED <<tracked, applied, effects, orphans, faults>>

Finish(r) ==
  /\ pc[r] = "walking" /\ todo[r] = {} /\ Goto(r, "up")
  /\ UNCHANGED <<db, todo, faults>>
-----------------------------------------------------------------------------
(* Failures.                                                               *)

\* A bug: the failure is logged and the loop goes on.
SwallowsFailure(r) ==
  /\ pc[r] \in {"locked", "apply"} /\ faults < MaxFaults
  /\ \E v \in Version : Current(r, v) /\ todo' = [todo EXCEPT ![r] = @ \ {v}]
  /\ Goto(r, "walking") /\ faults' = faults + 1 /\ lock' = Nobody
  /\ UNCHANGED <<tracked, applied, effects, orphans>>

\* A statement throws: the transaction is rolled back, or the catch clause
\* unlocks; initialize() throws and the boot fails.
StatementFails(r) ==
  /\ pc[r] \notin {"down", "up"} /\ faults < MaxFaults
  /\ Goto(r, "down") /\ faults' = faults + 1
  /\ lock' = IF lock = r THEN Nobody ELSE lock
  /\ UNCHANGED <<tracked, applied, effects, orphans, todo>>

\* The process dies, also when it is up.  Its session keeps the lock until
\* the server notices, and a statement that has been sent runs on.
ProcessDies(r) ==
  /\ pc[r] # "down" /\ faults < MaxFaults
  /\ Goto(r, "down") /\ faults' = faults + 1
  /\ lock' = IF lock = r THEN Orphan ELSE lock
  /\ orphans' = IF pc[r] = "apply" THEN {v \in NoTxn : Current(r, v)}
                                   ELSE orphans
  /\ UNCHANGED <<tracked, applied, effects, todo>>

\* The server ends the dead session; its statement took effect or not.
SessionEnds ==
  /\ lock = Orphan /\ lock' = Nobody /\ orphans' = {}
  /\ \E S \in {{}, orphans} :
       effects' = [v \in Version |-> IF v \in S THEN effects[v] + 1
                                               ELSE effects[v]]
  /\ UNCHANGED <<tracked, applied, pc, todo, faults>>

Step(r) ==
  \/ Boot(r) \/ LookForTable(r) \/ CreateTable(r) \/ ListPending(r)
  \/ TakeLock(r) \/ Recheck(r) \/ ApplyInTransaction(r) \/ RunStatement(r)
  \/ Record(r) \/ Unlock(r) \/ Finish(r)

Fault(r) == RetryTransaction(r) \/ StatementFails(r) \/ ProcessDies(r)

Done == /\ \A r \in Replica : pc[r] = "up"
        /\ faults = MaxFaults /\ UNCHANGED vars

Next == (\E r \in Replica : Step(r) \/ Fault(r)) \/ SessionEnds \/ Done

Spec == Init /\ [][Next]_vars

\* The orchestrator restarts a replica that is down, PostgreSQL ends a dead
\* session and grants its lock to every waiter in turn; faults are bounded.
FairSpec ==
  /\ Spec /\ WF_vars(SessionEnds)
  /\ \A r \in Replica : WF_vars(Step(r)) /\ SF_vars(TakeLock(r))
-----------------------------------------------------------------------------
\* A transactional migration takes effect exactly when it is recorded, once,
\* whatever fails and whoever boots.  One outside a transaction may be
\* repeated, at most once for each failure, but is not recorded without.
EffectsMatchRecords ==
  \A v \in Version :
    IF v \in NoTxn
    THEN (v \in applied => effects[v] > 0) /\ effects[v] <= 1 + faults
    ELSE effects[v] = IF v \in applied THEN 1 ELSE 0

\* A replica that has left initialize() finds every migration it ships
\* applied, its own or another's, whatever happened before.
BootedMeansMigrated ==
  \A r \in Replica : pc[r] = "up" => Files[r] \subseteq applied

\* Migrations of one release run in the order of their versions: when a
\* replica runs one, all it ships below have been applied.
InOrder ==
  [][\A r \in Replica, v \in Version :
       (effects'[v] > effects[v] /\ pc[r] = "apply" /\ pc'[r] # pc[r])
         => {w \in Files[r] : w < v} \subseteq applied]_vars

\* Every replica comes up in the end and stays up: no lost lock, no boot
\* that fails for ever over the tracking table or a half-done migration.
Converges == <>[](\A r \in Replica : pc[r] = "up")
=============================================================================
