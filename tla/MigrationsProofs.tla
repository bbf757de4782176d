-------------------------- MODULE MigrationsProofs --------------------------
(***************************************************************************)
(* Proofs about Migrations for any set of replicas, any files and any      *)
(* number of faults: the invariant that ties a replica's place in the loop *)
(* to the lock and to schema_migrations, and what follows from it.         *)
(***************************************************************************)
EXTENDS Migrations, TLAPS

Holding == {"locked", "apply", "record", "unlock"}

\* Between pg_advisory_lock and its end the lock is the replica's.
LockHeld == \A r \in Replica : pc[r] \in Holding => lock = r

\* The result of the re-check stays true while the lock is held.
RecheckHolds ==
  \A r \in Replica, v \in Version : Current(r, v) =>
    /\ pc[r] \in {"apply", "record"} => v \notin applied
    /\ pc[r] = "record" => effects[v] > 0
    /\ pc[r] = "unlock" => v \in applied

\* What the loop has gone through is applied.
WalkedIsApplied ==
  \A r \in Replica :
    pc[r] \in Holding \cup {"walking"} => Files[r] \ todo[r] \subseteq applied

\* A statement that runs on in a dead session is of a migration that nobody
\* has recorded and nobody can run, and the death that left it was counted.
OrphansCounted ==
  \A v \in orphans : lock = Orphan /\ v \notin applied /\ effects[v] < faults

\* A statement that was repeated was repeated because of a fault.
RepeatsCounted ==
  \A v \in NoTxn :
    (v \notin applied /\ \A r \in Replica : ~(pc[r] = "record" /\ Current(r, v)))
      => effects[v] <= faults

IndInv ==
  /\ TypeOK /\ LockHeld /\ RecheckHolds /\ WalkedIsApplied
  /\ OrphansCounted /\ RepeatsCounted
  /\ EffectsMatchRecords /\ BootedMeansMigrated
-----------------------------------------------------------------------------
\* The invariant holds when no replica has booted.
LEMMA InitInv == Init => IndInv
<1> SUFFICES ASSUME Init PROVE IndInv
  OBVIOUS
<1> USE MigrationsAssumption DEF Init
<1>1. TypeOK
  <2>1. tracked \in BOOLEAN /\ lock \in Replica \cup {Nobody, Orphan}
    OBVIOUS
  <2>2. applied \subseteq Version /\ orphans \subseteq NoTxn
    OBVIOUS
  <2>3. effects \in [Version -> Nat] /\ faults \in 0..MaxFaults
    OBVIOUS
  <2>4. pc \in [Replica -> Phase] /\ todo \in [Replica -> SUBSET Version]
    BY DEF Phase
  <2> QED BY <2>1, <2>2, <2>3, <2>4 DEF TypeOK
<1>2. LockHeld /\ RecheckHolds /\ WalkedIsApplied
  BY DEF LockHeld, RecheckHolds, WalkedIsApplied, Holding
<1>3. OrphansCounted /\ RepeatsCounted
  BY DEF OrphansCounted, RepeatsCounted
<1>4. EffectsMatchRecords /\ BootedMeansMigrated
  BY DEF EffectsMatchRecords, BootedMeansMigrated
<1> QED BY <1>1, <1>2, <1>3, <1>4 DEF IndInv

\* Every step of booting, applying and failing keeps it.
LEMMA NextInv == IndInv /\ [Next]_vars => IndInv'
<1> SUFFICES ASSUME IndInv, [Next]_vars PROVE IndInv'
  OBVIOUS
<1> USE MigrationsAssumption
    DEF IndInv, TypeOK, LockHeld, RecheckHolds, WalkedIsApplied,
        OrphansCounted, RepeatsCounted, EffectsMatchRecords,
        BootedMeansMigrated, Holding, Phase, Goto, Current, db
<1>1. ASSUME NEW r \in Replica, Boot(r) PROVE IndInv'
  BY <1>1 DEF Boot
<1>2. ASSUME NEW r \in Replica, LookForTable(r) PROVE IndInv'
  BY <1>2 DEF LookForTable
<1>3. ASSUME NEW r \in Replica, CreateTable(r) PROVE IndInv'
  BY <1>3 DEF CreateTable
<1>4. ASSUME NEW r \in Replica, ListPending(r) PROVE IndInv'
  BY <1>4 DEF ListPending
<1>5. ASSUME NEW r \in Replica, TakeLock(r) PROVE IndInv'
  BY <1>5 DEF TakeLock
<1>6. ASSUME NEW r \in Replica, Recheck(r) PROVE IndInv'
  BY <1>6 DEF Recheck
<1>7. ASSUME NEW r \in Replica, ApplyInTransaction(r) PROVE IndInv'
  BY <1>7 DEF ApplyInTransaction
<1>8. ASSUME NEW r \in Replica, RunStatement(r) PROVE IndInv'
  BY <1>8 DEF RunStatement
<1>9. ASSUME NEW r \in Replica, Record(r) PROVE IndInv'
  BY <1>9 DEF Record
<1>10. ASSUME NEW r \in Replica, Unlock(r) PROVE IndInv'
  BY <1>10 DEF Unlock
<1>11. ASSUME NEW r \in Replica, Finish(r) PROVE IndInv'
  BY <1>11 DEF Finish
<1>12. ASSUME NEW r \in Replica, RetryTransaction(r) PROVE IndInv'
  BY <1>12 DEF RetryTransaction
<1>13. ASSUME NEW r \in Replica, StatementFails(r) PROVE IndInv'
  BY <1>13 DEF StatementFails
<1>14. ASSUME NEW r \in Replica, ProcessDies(r) PROVE IndInv'
  <2> USE <1>14 DEF ProcessDies
  <2>1. lock # r => lock' = lock
    OBVIOUS
  <2>2. TypeOK'
    <3>1. orphans' \subseteq NoTxn
      OBVIOUS
    <3> QED BY <3>1
  <2>3. LockHeld' /\ RecheckHolds' /\ WalkedIsApplied'
    OBVIOUS
  <2>4. OrphansCounted'
    <3>1. CASE pc[r] = "apply"
      \* Nobody has recorded the migration r was running, r has the lock.
      <4>1. lock = r /\ lock' = Orphan
        BY <3>1
      <4>2. ASSUME NEW v \in orphans'
            PROVE  v \notin applied /\ effects[v] < faults'
        <5>1. v \in NoTxn /\ Current(r, v)
          BY <3>1, <4>2
        <5>2. v \notin applied
          BY <3>1, <5>1
        <5>3. \A q \in Replica : pc[q] # "record"
          BY <3>1, <4>1
        <5>4. effects[v] <= faults
          BY <5>1, <5>2, <5>3
        <5> QED BY <5>1, <5>2, <5>4
      <4> QED BY <4>1, <4>2
    <3>2. CASE pc[r] # "apply"
      BY <3>2
    <3> QED BY <3>1, <3>2
  <2>5. RepeatsCounted'
    <3> SUFFICES ASSUME NEW v \in NoTxn, v \notin applied
                 PROVE  effects[v] <= faults + 1
      OBVIOUS
    <3> QED OBVIOUS
  <2>6. EffectsMatchRecords'
    OBVIOUS
  <2>7. BootedMeansMigrated'
    OBVIOUS
  <2> QED BY <2>2, <2>3, <2>4, <2>5, <2>6, <2>7
<1>15. CASE SessionEnds
  BY <1>15 DEF SessionEnds
<1>16. CASE UNCHANGED vars
  BY <1>16 DEF vars
<1> QED
  BY <1>1, <1>2, <1>3, <1>4, <1>5, <1>6, <1>7, <1>8, <1>9, <1>10, <1>11,
     <1>12, <1>13, <1>14, <1>15, <1>16 DEF Next, Step, Fault, Done

\* For any replicas and files, a transactional migration takes effect once
\* and exactly when it is recorded; what is outside a transaction is repeated
\* at most once for each fault.
THEOREM AppliedOnce == Spec => []EffectsMatchRecords
<1>1. IndInv => EffectsMatchRecords
  BY DEF IndInv
<1> QED BY InitInv, NextInv, <1>1, PTL DEF Spec

\* A replica never leaves initialize() with one of its migrations missing.
THEOREM UpMeansMigrated == Spec => []BootedMeansMigrated
<1>1. IndInv => BootedMeansMigrated
  BY DEF IndInv
<1> QED BY InitInv, NextInv, <1>1, PTL DEF Spec

\* A replica runs a migration only after every file it ships below it.
THEOREM RunsInOrder == Spec => InOrder
<1> DEFINE Ordered ==
      \A r \in Replica, v \in Version :
        (effects'[v] > effects[v] /\ pc[r] = "apply" /\ pc'[r] # pc[r])
          => {w \in Files[r] : w < v} \subseteq applied
<1>1. IndInv /\ [Next]_vars => [Ordered]_vars
  <2> SUFFICES ASSUME IndInv, Next PROVE Ordered
    BY DEF IndInv
  <2> SUFFICES ASSUME NEW r \in Replica, NEW v \in Version,
                      effects'[v] > effects[v], pc[r] = "apply", pc'[r] # pc[r]
               PROVE  {w \in Files[r] : w < v} \subseteq applied
    OBVIOUS
  <2>1. TypeOK /\ Files[r] \ todo[r] \subseteq applied
    BY DEF IndInv, WalkedIsApplied, Holding
  <2>2. ApplyInTransaction(r) \/ RunStatement(r)
    BY <2>1, MigrationsAssumption
       DEF Next, Step, Fault, Boot, LookForTable, CreateTable, ListPending,
           TakeLock, Recheck, ApplyInTransaction, RunStatement, Record, Unlock,
           Finish, RetryTransaction, StatementFails, ProcessDies, SessionEnds,
           Done, Goto, TypeOK, Phase, vars, db
  <2>3. Current(r, v)
    BY <2>1, <2>2, MigrationsAssumption
       DEF ApplyInTransaction, RunStatement, TypeOK
  <2>4. ASSUME NEW w \in Files[r], w < v PROVE w \in applied
    <3>1. v \in Nat /\ w \in Nat /\ w \notin todo[r]
      BY <2>1, <2>3, <2>4, MigrationsAssumption DEF Current, TypeOK
    <3> QED BY <2>1, <3>1
  <2> QED BY <2>4
<1> QED BY InitInv, NextInv, <1>1, PTL DEF Spec, InOrder
=============================================================================
