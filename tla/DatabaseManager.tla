-------------------------- MODULE DatabaseManager --------------------------
(***************************************************************************)
(* DatabaseManager (database/Database.hpp) and Retry::run (utils/Retry.hpp)*)
(* as the callers of execute_* see them: attempts, errors, the classifier  *)
(* of each operation, the round robin over replicas and the fallback to    *)
(* the primary.  One attempt (borrow, begin, the caller's function, commit)*)
(* is one step; the pool is module ConnectionPool.  The servers are        *)
(* outside the repository: a commit whose answer is lost may have landed,  *)
(* and a replica replays the primary's commits late.  The sleep between    *)
(* two attempts (compute_delay_ms) only takes time.                        *)
(***************************************************************************)
EXTENDS Integers

CONSTANTS
  Client,       \* threads that call the manager
  MaxAttempts,  \* largest Policy::max_attempts
  MaxReplicas,  \* replicas configured
  MaxCalls      \* calls the clients make together

ASSUME ManagerAssumption ==
  MaxAttempts \in Nat /\ MaxReplicas \in Nat /\ MaxCalls \in Nat

\* execute_transaction differs from execute_write in the isolation level only.
Write      == {"execute_write"}
Idempotent == {"execute_write_idempotent"}
Raw        == {"with_primary_connection"}
Writing    == Write \cup Idempotent \cup Raw
Reading    == {"execute_read_primary", "execute_read"}
Operation  == Writing \cup Reading

Server     == {"replica", "primary"}

VARIABLES
  replica_pools,    \* how many replicas could be reached at initialize()
  current_replica,  \* current_replica_, modulo replica_pools
  max_attempts,     \* retry_policy_.max_attempts
  log,              \* commits on the primary
  replayed,         \* commits each replica has replayed
  calls,            \* calls so far
  call              \* of each client: its call

vars == <<replica_pools, current_replica, max_attempts, log, replayed, calls, call>>

(* call[c].state:   "idle", "running", "returned", "threw"                 *)
(*         op:      the operation                                          *)
(*         path:    0 for the primary, i for replica i                     *)
(*         attempt: failed attempts on this path                           *)
(*         runs:    invocations of the caller's function on each server    *)
(*         landed:  commits of this call                                   *)
(*         acked:   the log when the client's last write returned          *)
(*         since:   acked when the call began                              *)
(*         seen:    commits the read has seen                              *)

CallType ==
  [state : {"idle", "running", "returned", "threw"}, op : Operation,
   path : 0..MaxReplicas, attempt : Nat, runs : [Server -> Nat], landed : Nat,
   acked : Nat, since : Nat, seen : Nat]

TypeOK ==
  /\ replica_pools \in 0..MaxReplicas
  /\ current_replica \in 0..MaxReplicas
  /\ max_attempts \in 0..MaxAttempts
  /\ log \in Nat /\ replayed \in [1..MaxReplicas -> Nat]
  /\ calls \in 0..MaxCalls
  /\ call \in [Client -> CallType]
  /\ \A c \in Client : call[c].path <= replica_pools

Init ==
  /\ replica_pools \in 0..MaxReplicas /\ max_attempts \in 0..MaxAttempts
  /\ current_replica = 0 /\ log = 0 /\ calls = 0
  /\ replayed = [i \in 1..MaxReplicas |-> 0]
  /\ call = [c \in Client |->
               [state |-> "idle", op |-> "execute_read", path |-> 0,
                attempt |-> 0, runs |-> [s \in Server |-> 0], landed |-> 0,
                acked |-> 0, since |-> 0, seen |-> 0]]
-----------------------------------------------------------------------------
(* Errors and classifiers (Retry.hpp).                                     *)

RolledBack == {"40001", "40P01"}
Connection == {"broken_connection", "class 08", "57P"}
Error      == RolledBack \cup Connection \cup {"other"}

\* How far a failed attempt came: no connection was borrowed, the caller's
\* function ran and nothing is committed, or its commit landed all the same.
Outcome == {"unborrowed", "undone", "landed"}

\* What each error leaves open: PostgreSQL rolls back on the first two; when
\* the connection is lost around COMMIT nobody knows.
Leaves(e) == IF e \in RolledBack THEN {"undone"} ELSE Outcome

is_transient_pqxx_write == RolledBack
is_transient_pqxx_read  == RolledBack \cup Connection

\* A bug: one classifier for everything (the legacy is_transient_pqxx).
OneClassifier(op) == is_transient_pqxx_read

\* The errors after which an operation is tried again.
Transient(op) ==
  CASE op \in Write -> is_transient_pqxx_write
    [] op \in Raw   -> {}
    [] OTHER        -> is_transient_pqxx_read

\* A bug: the attempt that has just failed is not counted.
CanRetryLate(k, e) == k.attempt < max_attempts /\ e \in Transient(k.op)

\* can_retry in Retry::run, attempt + 1 being the failed attempts.
CanRetry(k, e) == k.attempt + 1 < max_attempts /\ e \in Transient(k.op)
-----------------------------------------------------------------------------
(* A call.                                                                 *)

\* A bug: every read goes to a replica.
AnyReplica(op) == op \in Reading /\ replica_pools > 0

\* The operations pick_replica_pool_ serves.
OnReplica(op) == op = "execute_read" /\ replica_pools > 0

NextReplica == (current_replica + 1) % replica_pools

Call(c) ==
  /\ call[c].state # "running" /\ calls < MaxCalls /\ calls' = calls + 1
  /\ \E op \in Operation :
       /\ call' = [call EXCEPT ![c] =
            [@ EXCEPT !.state = "running", !.op = op, !.attempt = 0,
                      !.runs = [s \in Server |-> 0], !.landed = 0, !.seen = 0,
                      !.since = call[c].acked,
                      !.path = IF OnReplica(op) THEN current_replica + 1
                                                ELSE 0]]
       /\ current_replica' = IF OnReplica(op) THEN NextReplica
                                              ELSE current_replica
  /\ UNCHANGED <<replica_pools, max_attempts, log, replayed>>

ServerOf(k) == IF k.path = 0 THEN "primary" ELSE "replica"

\* The primary commits what call k wrote.
Landing(k, yes) ==
  /\ log' = IF yes THEN log + 1 ELSE log
  /\ yes => k.op \in Writing

AttemptSucceeds(c) ==
  LET k == call[c] IN
  /\ k.state = "running"
  /\ Landing(k, k.op \in Writing)
  /\ call' = [call EXCEPT ![c] =
       [k EXCEPT !.state = "returned", !.runs[ServerOf(k)] = @ + 1,
                 !.landed = IF k.op \in Writing THEN @ + 1 ELSE @,
                 !.acked = IF k.op \in Writing THEN log + 1 ELSE @,
                 !.seen = IF k.path = 0 THEN log ELSE replayed[k.path]]]
  /\ UNCHANGED <<replica_pools, current_replica, max_attempts, replayed, calls>>

\* An attempt fails with error e and leaves how.
Fails(k, e, how) ==
  /\ k.state = "running"
  /\ how \in Leaves(e)
  /\ Landing(k, how = "landed")
  /\ UNCHANGED <<replica_pools, current_replica, max_attempts, replayed, calls>>

After(k, how) ==
  [k EXCEPT !.runs[ServerOf(k)] = IF how = "unborrowed" THEN @ ELSE @ + 1,
            !.attempt = @ + 1,
            !.landed = IF how = "landed" THEN @ + 1 ELSE @]

Retry(c) ==
  \E e \in Error, how \in Outcome :
    /\ Fails(call[c], e, how) /\ CanRetry(call[c], e)
    /\ call' = [call EXCEPT ![c] = After(@, how)]

\* The catch clause of execute_read: a new Retry::run on the primary.
FallBack(c) ==
  \E e \in Error, how \in Outcome :
    /\ Fails(call[c], e, how) /\ ~CanRetry(call[c], e)
    /\ call[c].path # 0
    /\ call' = [call EXCEPT ![c] =
         [After(@, how) EXCEPT !.path = 0, !.attempt = 0]]

Throw(c) ==
  \E e \in Error, how \in Outcome :
    /\ Fails(call[c], e, how) /\ ~CanRetry(call[c], e)
    /\ call[c].path = 0
    /\ call' = [call EXCEPT ![c] = [After(@, how) EXCEPT !.state = "threw"]]

Replay(i) ==
  /\ i <= replica_pools /\ replayed[i] < log
  /\ replayed' = [replayed EXCEPT ![i] = @ + 1]
  /\ UNCHANGED <<replica_pools, current_replica, max_attempts, log, calls, call>>

Done == /\ \A c \in Client : call[c].state # "running" /\ calls = MaxCalls
        /\ \A i \in 1..replica_pools : replayed[i] = log
        /\ UNCHANGED vars

Next ==
  \/ \E c \in Client : \/ Call(c) \/ AttemptSucceeds(c) \/ Retry(c)
                       \/ FallBack(c) \/ Throw(c)
  \/ \E i \in 1..MaxReplicas : Replay(i)
  \/ Done

Spec == Init /\ [][Next]_vars
-----------------------------------------------------------------------------
\* A write that its caller did not declare idempotent commits at most once,
\* through any sequence of lost answers and retries; a write that returns has
\* committed, an idempotent one perhaps more than once.
CommitsAtMostOnce ==
  \A c \in Client : LET k == call[c] IN
    /\ k.op \in Write \cup Raw => k.landed <= 1
    /\ k.state = "returned" /\ k.op \in Writing => k.landed >= 1
    /\ k.op \in Reading => k.landed = 0

\* execute_read_primary sees every write the same client saw return before,
\* however far the replicas lag and whatever was retried.
ReadYourWrites ==
  \A c \in Client : LET k == call[c] IN
    k.state = "returned" /\ k.op = "execute_read_primary" => k.seen >= k.since

\* The caller's function runs at most max_attempts times on the primary and as
\* often on a replica, where only execute_read is ever tried, and only on pools
\* that could be reached at boot; a policy of 0 still means one attempt.  The
\* comment on execute_read, "at most once per path", leaves the retries out.
AttemptsBounded ==
  \A c \in Client : LET k == call[c] IN
    /\ \A s \in Server : k.runs[s] <= (IF max_attempts = 0 THEN 1 ELSE max_attempts)
    /\ k.runs["replica"] > 0 => k.op = "execute_read" /\ replica_pools > 0
    /\ k.path <= replica_pools
=============================================================================
