--------------------------- MODULE ConnectionPool ---------------------------
(***************************************************************************)
(* Database::ConnectionPool (database/Database.hpp) and the threads that   *)
(* borrow from it through PooledConnection.  Everything under pool_mutex_  *)
(* is one step; a thread asleep in cv_ has released the mutex and runs     *)
(* again when it is notified or when its wait_for expires.                 *)
(***************************************************************************)
EXTENDS Naturals, FiniteSets

CONSTANTS
  Thread,    \* the threads that borrow connections
  PoolSize,  \* pool_size_
  MaxCalls   \* acquire() calls one thread makes

ASSUME PoolAssumption ==
  /\ IsFiniteSet(Thread)
  /\ PoolSize \in Nat \ {0} /\ MaxCalls \in Nat

VARIABLES
  available,       \* Len(available_connections_)
  active,          \* active_connections_
  pc,              \* where each thread is
  calls,           \* acquire() calls each thread has made
  stop,            \* where shutdown() and the destruction of the pool are
  loop_stopped,    \* the server loop had stopped when shutdown() began
  drain_timed_out  \* shutdown() gave up waiting for connections in use

ends == <<loop_stopped, drain_timed_out>>
vars == <<available, active, pc, calls, stop, ends>>

(* pc:   "idle", "waiting" (in cv_), "woken" (notified), "expired" (its    *)
(*       wait_for is over), "connecting" (lazy fill), "holding".           *)
(* stop: "open", "draining" (in cv_), "woken", "cleared", "freed".         *)

InUse   == {t \in Thread : pc[t] \in {"connecting", "holding"}}
Waiting == {t \in Thread : pc[t] = "waiting"}

can_proceed == available > 0 \/ available + active < PoolSize

\* A thread that evaluates can_proceed: a new call, or one back from cv_.
AtCheck(t) ==
  /\ stop # "freed"
  /\ \/ pc[t] = "idle" /\ calls[t] < MaxCalls /\ ~loop_stopped
     \/ pc[t] \in {"woken", "expired"}

Calls(t) == [calls EXCEPT ![t] = IF pc[t] = "idle" THEN @ + 1 ELSE @]

\* notify_one, given what the notifier itself does to pc: one of the threads
\* asleep in cv_, shutdown() among them, is woken, if there is one.
NotifyOne(newpc) ==
  \/ \E t \in Waiting : pc' = [newpc EXCEPT ![t] = "woken"] /\ UNCHANGED stop
  \/ stop = "draining" /\ stop' = "woken" /\ pc' = newpc
  \/ Waiting = {} /\ stop # "draining" /\ pc' = newpc /\ UNCHANGED stop
-----------------------------------------------------------------------------
(* acquire()                                                               *)

TakeQueued(t) ==
  /\ AtCheck(t) /\ available > 0
  /\ available' = available - 1 /\ active' = active + 1
  /\ pc' = [pc EXCEPT ![t] = "holding"] /\ calls' = Calls(t)
  /\ UNCHANGED <<stop, ends>>

\* A bug: the slot is not reserved before the mutex is released.
FillUnreserved(t) ==
  /\ AtCheck(t) /\ available = 0 /\ can_proceed
  /\ pc' = [pc EXCEPT ![t] = "connecting"] /\ calls' = Calls(t)
  /\ UNCHANGED <<available, active, stop, ends>>

LazyFill(t) ==
  /\ AtCheck(t) /\ available = 0 /\ can_proceed
  /\ active' = active + 1
  /\ pc' = [pc EXCEPT ![t] = "connecting"] /\ calls' = Calls(t)
  /\ UNCHANGED <<available, stop, ends>>

Sleep(t) ==
  /\ AtCheck(t) /\ ~can_proceed /\ pc[t] # "expired"
  /\ pc' = [pc EXCEPT ![t] = "waiting"] /\ calls' = Calls(t)
  /\ UNCHANGED <<available, active, stop, ends>>

WaitExpires(t) ==
  /\ stop # "freed" /\ pc[t] = "waiting"
  /\ pc' = [pc EXCEPT ![t] = "expired"]
  /\ UNCHANGED <<available, active, calls, stop, ends>>

\* The predicate is false when the time is up: acquire() throws.
AcquireTimesOut(t) ==
  /\ AtCheck(t) /\ ~can_proceed /\ pc[t] = "expired"
  /\ pc' = [pc EXCEPT ![t] = "idle"]
  /\ UNCHANGED <<available, active, calls, stop, ends>>

Connected(t) ==
  /\ stop # "freed" /\ pc[t] = "connecting"
  /\ pc' = [pc EXCEPT ![t] = "holding"]
  /\ UNCHANGED <<available, active, calls, stop, ends>>

\* A bug: the slot is given back silently.
ConnectFailsSilently(t) ==
  /\ stop # "freed" /\ pc[t] = "connecting"
  /\ active' = active - 1
  /\ pc' = [pc EXCEPT ![t] = "idle"]
  /\ UNCHANGED <<available, calls, stop, ends>>

\* The handshake throws: the slot is given back and acquire() rethrows.
ConnectFails(t) ==
  /\ stop # "freed" /\ pc[t] = "connecting"
  /\ active' = active - 1
  /\ NotifyOne([pc EXCEPT ![t] = "idle"])
  /\ UNCHANGED <<available, calls, ends>>
-----------------------------------------------------------------------------
(* release(), from the destructor of PooledConnection                      *)

\* A bug: a broken connection is dropped without waking anyone.
ReleaseDropsNotify(t, open) ==
  /\ stop # "freed" /\ pc[t] = "holding"
  /\ available' = IF open THEN available + 1 ELSE available
  /\ active' = active - 1
  /\ IF open THEN NotifyOne([pc EXCEPT ![t] = "idle"])
     ELSE pc' = [pc EXCEPT ![t] = "idle"] /\ UNCHANGED stop
  /\ UNCHANGED <<calls, ends>>

\* An open connection goes back to the queue, a broken one is dropped.
Release(t, open) ==
  /\ stop # "freed" /\ pc[t] = "holding"
  /\ available' = IF open THEN available + 1 ELSE available
  /\ active' = active - 1
  /\ NotifyOne([pc EXCEPT ![t] = "idle"])
  /\ UNCHANGED <<calls, ends>>
-----------------------------------------------------------------------------
(* shutdown(), and the pool's destruction by DatabaseManager::shutdown     *)

\* When the server loop has stopped, no call is inside acquire() and none
\* follows.  shutdown() relies on it and does not check it; either way a
\* connection may still be in use.
Begins ==
  /\ stop = "open" /\ loop_stopped' \in BOOLEAN
  /\ loop_stopped' => \A t \in Thread : pc[t] \in {"idle", "holding"}
  /\ UNCHANGED <<active, pc, calls, drain_timed_out>>

\* A bug: connections in use are not waited for.
BeginShutdownNoDrain == Begins /\ stop' = "cleared" /\ available' = 0

DrainOrClear ==
  IF active > 0 THEN stop' = "draining" /\ UNCHANGED available
  ELSE stop' = "cleared" /\ available' = 0

BeginShutdown == Begins /\ DrainOrClear

\* Back from cv_, notified.
Drain ==
  /\ stop = "woken" /\ DrainOrClear
  /\ UNCHANGED <<active, pc, calls, ends>>

\* The five seconds are over: shutdown() goes on whatever is in use.
DrainTimesOut ==
  /\ stop = "draining"
  /\ stop' = "cleared" /\ available' = 0
  /\ drain_timed_out' = (active > 0)
  /\ UNCHANGED <<active, pc, calls, loop_stopped>>

Free ==
  /\ stop = "cleared"
  /\ stop' = "freed"
  /\ UNCHANGED <<available, active, pc, calls, ends>>

Freed == stop = "freed" /\ UNCHANGED vars
-----------------------------------------------------------------------------
Init ==
  /\ available = PoolSize /\ active = 0
  /\ pc = [t \in Thread |-> "idle"] /\ calls = [t \in Thread |-> 0]
  /\ stop = "open" /\ loop_stopped = FALSE /\ drain_timed_out = FALSE

Acquire(t)  == TakeQueued(t) \/ LazyFill(t) \/ Sleep(t) \/ AcquireTimesOut(t)
Progress(t) == Acquire(t) \/ Connected(t) \/ ConnectFails(t)
               \/ (\E open \in BOOLEAN : Release(t, open))
Shutdown    == Drain \/ Free

Next ==
  \/ \E t \in Thread : Progress(t) \/ WaitExpires(t)
  \/ BeginShutdown \/ Shutdown \/ DrainTimesOut
  \/ Freed

Spec == Init /\ [][Next]_vars

\* A thread that can run runs: a borrower gives its connection back and a
\* handshake ends.  No wait_for has to expire: what the properties say must
\* happen, happens without the help of a timeout.
Fairness == (\A t \in Thread : WF_vars(Progress(t))) /\ WF_vars(Shutdown)

FairSpec == Spec /\ Fairness
-----------------------------------------------------------------------------
(* Properties.                                                             *)

\* The variables have their types.
TypeOK ==
  /\ available \in Nat /\ active \in Nat
  /\ pc \in [Thread -> {"idle", "waiting", "woken", "expired", "connecting", "holding"}]
  /\ calls \in [Thread -> 0..MaxCalls]
  /\ stop \in {"open", "draining", "woken", "cleared", "freed"}
  /\ loop_stopped \in BOOLEAN /\ drain_timed_out \in BOOLEAN

\* The pool never has more connections than pool_size, counting the queued
\* ones, the borrowed ones and the handshakes made outside the mutex.
CapacityBound == available + Cardinality(InUse) <= PoolSize

\* active_connections_ is exactly the number of slots in use: a failed
\* handshake or a dropped connection never leaks one.
NoSlotLeaks == active = Cardinality(InUse)

\* No wakeup is lost before shutdown(): while a thread sleeps although a
\* connection or a free slot is there for it, another thread back from cv_ is
\* about to take it.
NoLostWakeup ==
  stop = "open" /\ Waiting # {} /\ can_proceed =>
    \E t \in Thread : pc[t] \in {"woken", "expired"}

\* When the server loop stopped before shutdown() and shutdown() did not give
\* up, no borrowed connection outlives the pool (its PooledConnection would
\* call release() on freed memory).
FreedOnlyWhenDrained ==
  stop = "freed" /\ loop_stopped /\ ~drain_timed_out => InUse = {}

\* A thread asleep in acquire() is served without any timeout, however many of
\* the connections break: the pool heals itself, until it is shut down.
Served ==
  \A t \in Thread : pc[t] = "waiting" ~> pc[t] # "waiting" \/ stop # "open"

\* shutdown() ends without its five seconds once the borrowers are done, also
\* when release() wakes a thread asleep in acquire() in its place.
ShutdownEnds == stop = "draining" ~> stop = "freed"
=============================================================================
