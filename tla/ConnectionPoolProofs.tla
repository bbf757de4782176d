------------------------ MODULE ConnectionPoolProofs ------------------------
(***************************************************************************)
(* Proofs about ConnectionPool, for every number of threads and pool size. *)
(* What the counters of the pool say is compared with the number of        *)
(* threads at each place of the code.                                      *)
(***************************************************************************)
EXTENDS ConnectionPool, FiniteSetTheorems, TLAPS

Place == {"idle", "waiting", "woken", "expired", "connecting", "holding"}
Use   == {"connecting", "holding"}
Ready == {"woken", "expired"}

\* The number of threads that are at one of the places in P.
Count(f, P) == Cardinality({t \in Thread : f[t] \in P})

\* What a thread at place v adds to that number.
Hit(v, P) == IF v \in P THEN 1 ELSE 0
-----------------------------------------------------------------------------
(* Counting threads.                                                       *)

\* A count is a natural number, and it is 0 only if nobody is there.
LEMMA CountNat ==
  ASSUME NEW f \in [Thread -> Place], NEW P
  PROVE  /\ Count(f, P) \in Nat
         /\ Count(f, P) = 0 <=> \A t \in Thread : f[t] \notin P
  <1> DEFINE S == {t \in Thread : f[t] \in P}
  <1>1. IsFiniteSet(S)
    BY PoolAssumption, FS_Subset
  <1>2. Cardinality(S) \in Nat
    BY <1>1, FS_CardinalityType
  <1>3. Cardinality(S) = 0 <=> S = {}
    BY <1>1, FS_EmptySet
  <1> QED
    BY <1>2, <1>3 DEF Count

\* What the move of one thread t does to a count.
LEMMA CountMove ==
  ASSUME NEW f \in [Thread -> Place], NEW g \in [Thread -> Place],
         NEW t \in Thread, \A u \in Thread : u # t => g[u] = f[u], NEW P
  PROVE  Count(g, P) = Count(f, P) - Hit(f[t], P) + Hit(g[t], P)
  <1> DEFINE S == {u \in Thread : f[u] \in P}
             R == {u \in Thread : g[u] \in P}
  <1>1. IsFiniteSet(S) /\ IsFiniteSet(R)
    BY PoolAssumption, FS_Subset
  <1>2. /\ Cardinality(S) \in Nat /\ Cardinality(R) \in Nat
        /\ Count(f, P) = Cardinality(S) /\ Count(g, P) = Cardinality(R)
    BY <1>1, FS_CardinalityType DEF Count
  <1>3. CASE f[t] \in P <=> g[t] \in P
    <2>1. R = S
      BY <1>3
    <2>2. Hit(f[t], P) = Hit(g[t], P) /\ Hit(g[t], P) \in {0, 1}
      BY <1>3 DEF Hit
    <2> HIDE DEF S, R
    <2> QED
      BY <1>2, <2>1, <2>2
  <1>4. CASE f[t] \in P /\ g[t] \notin P
    <2>1. R = S \ {t} /\ t \in S
      BY <1>4
    <2>2. Cardinality(R) = Cardinality(S) - 1
      BY <1>1, <2>1, FS_RemoveElement
    <2>3. Hit(f[t], P) = 1 /\ Hit(g[t], P) = 0
      BY <1>4 DEF Hit
    <2> QED
      BY <1>2, <2>2, <2>3
  <1>5. CASE f[t] \notin P /\ g[t] \in P
    <2>1. R = S \cup {t} /\ t \notin S
      BY <1>5
    <2>2. Cardinality(R) = Cardinality(S) + 1
      BY <1>1, <2>1, FS_AddElement
    <2>3. Hit(f[t], P) = 0 /\ Hit(g[t], P) = 1
      BY <1>5 DEF Hit
    <2> QED
      BY <1>2, <2>2, <2>3
  <1> QED
    BY <1>3, <1>4, <1>5
-----------------------------------------------------------------------------
(* The inductive invariant.                                                *)

\* The counters are exact and bounded.
Counters ==
  /\ active = Count(pc, Use)
  /\ available + active <= PoolSize

\* While a thread sleeps, every free slot has a thread on its way to it.
Wakeups ==
  stop = "open" /\ (\E t \in Thread : pc[t] = "waiting") =>
    PoolSize - active <= Count(pc, Ready)

\* After the server loop nobody is inside acquire(), and the pool is cleared
\* with nothing in use unless shutdown() gave up.
Drained ==
  /\ loop_stopped => stop # "open" /\ \A t \in Thread : pc[t] \in {"idle", "holding"}
  /\ stop \in {"cleared", "freed"} /\ loop_stopped /\ ~drain_timed_out => active = 0
  /\ stop \in {"open", "draining", "woken"} => ~drain_timed_out

PoolInv == TypeOK /\ Counters /\ Wakeups /\ Drained

\* The constructor fills the queue and nothing is in use: PoolInv holds.
LEMMA InitPool == Init => PoolInv
  <1> SUFFICES ASSUME Init PROVE PoolInv
    OBVIOUS
  <1>1. TypeOK
    <2>1. loop_stopped \in BOOLEAN /\ drain_timed_out \in BOOLEAN
      BY Zenon DEF Init
    <2> QED
      BY <2>1, PoolAssumption DEF Init, TypeOK
  <1>2. Count(pc, Use) = 0
    <2>1. pc \in [Thread -> Place]
      BY DEF Init, Place
    <2> QED
      BY <2>1, CountNat DEF Init, Use
  <1> QED
    BY <1>1, <1>2, PoolAssumption DEF Init, PoolInv, Counters, Wakeups, Drained
-----------------------------------------------------------------------------
(* A thread moves and nobody is notified.                                  *)

\* Every thread is at one of the six places.
LEMMA TypedPlaces == TypeOK => pc \in [Thread -> Place]
  BY DEF TypeOK, Place

\* Taking a queued connection, or reserving a slot for a handshake, moves one
\* thread into a slot that can_proceed says is free.
LEMMA TakeStep ==
  ASSUME PoolInv, NEW t \in Thread, TakeQueued(t) \/ LazyFill(t)
  PROVE  PoolInv'
  <1> USE PoolAssumption
  <1>0. /\ TypeOK /\ Counters /\ Wakeups /\ Drained
        /\ pc \in [Thread -> Place]
    BY TypedPlaces DEF PoolInv
  <1> DEFINE v == IF available > 0 THEN "holding" ELSE "connecting"
  <1>1. /\ stop # "freed" /\ stop' = stop
        /\ drain_timed_out' = drain_timed_out /\ loop_stopped' = loop_stopped
        /\ pc[t] \in {"idle", "woken", "expired"}
        /\ pc[t] = "idle" => calls[t] < MaxCalls /\ ~loop_stopped
        /\ calls' = Calls(t)
        /\ active' = active + 1
        /\ available' + active' <= PoolSize /\ available' \in Nat
        /\ pc' = [pc EXCEPT ![t] = v]
    BY <1>0 DEF TakeQueued, LazyFill, AtCheck, can_proceed, ends, TypeOK, Counters
  <1>a. /\ pc' \in [Thread -> Place] /\ pc'[t] = v
        /\ \A u \in Thread : u # t => pc'[u] = pc[u]
    BY <1>0, <1>1 DEF Place
  <1>2. TypeOK'
    <2>1. calls' \in [Thread -> 0..MaxCalls]
      BY <1>0, <1>1 DEF TypeOK, Calls
    <2> QED
      BY <1>0, <1>1, <1>a, <2>1 DEF TypeOK, Place
  <1>3. Counters'
    <2>1. Count(pc', Use) = Count(pc, Use) - Hit(pc[t], Use) + Hit(v, Use)
      BY <1>0, <1>a, CountMove
    <2>2. Hit(pc[t], Use) = 0 /\ Hit(v, Use) = 1
      BY <1>1 DEF Hit, Use
    <2> QED
      BY <1>0, <1>1, <2>1, <2>2, CountNat DEF Counters, TypeOK
  <1>4. Wakeups'
    <2>1. Count(pc', Ready) = Count(pc, Ready) - Hit(pc[t], Ready) + Hit(v, Ready)
      BY <1>0, <1>a, CountMove
    <2>2. Hit(v, Ready) = 0 /\ Hit(pc[t], Ready) \in {0, 1}
      BY <1>1 DEF Hit, Ready
    <2>3. (\E u \in Thread : pc'[u] = "waiting") => \E u \in Thread : pc[u] = "waiting"
      BY <1>0, <1>1
    <2>4. Count(pc, Ready) \in Nat
      BY <1>0, CountNat
    <2> QED
      BY <1>0, <1>1, <2>1, <2>2, <2>3, <2>4 DEF Wakeups, TypeOK
  <1>5. Drained'
    <2>1. ~loop_stopped
      BY <1>0, <1>1 DEF Drained
    <2> QED
      BY <1>0, <1>1, <2>1 DEF Drained
  <1> QED
    BY <1>2, <1>3, <1>4, <1>5 DEF PoolInv

\* Sleeping, timing out and the end of a handshake move no slot.
LEMMA StayStep ==
  ASSUME PoolInv, NEW t \in Thread,
         Sleep(t) \/ AcquireTimesOut(t) \/ WaitExpires(t) \/ Connected(t)
  PROVE  PoolInv'
  <1> USE PoolAssumption
  <1>0. /\ TypeOK /\ Counters /\ Wakeups /\ Drained
        /\ pc \in [Thread -> Place]
    BY TypedPlaces DEF PoolInv
  <1>1. PICK v \in Place :
          /\ pc' = [pc EXCEPT ![t] = v]
          /\ pc[t] \in Use <=> v \in Use
          /\ \/ active >= PoolSize
             \/ pc[t] = "waiting" /\ v = "expired"
             \/ pc[t] = "connecting" /\ v = "holding"
          /\ loop_stopped => pc[t] = "holding" /\ v = "holding"
    <2>1. CASE Sleep(t) \/ AcquireTimesOut(t)
      BY <1>0, <2>1
         DEF Sleep, AcquireTimesOut, AtCheck, can_proceed, TypeOK, Drained, Place, Use
    <2>2. CASE WaitExpires(t)
      BY <1>0, <2>2 DEF WaitExpires, Drained, Place, Use
    <2>3. CASE Connected(t)
      BY <1>0, <2>3 DEF Connected, Drained, Place, Use
    <2> QED
      BY <2>1, <2>2, <2>3
  <1>2. /\ available' = available /\ active' = active /\ stop' = stop
        /\ drain_timed_out' = drain_timed_out /\ loop_stopped' = loop_stopped
    BY DEF Sleep, AcquireTimesOut, WaitExpires, Connected, ends
  <1>3. calls' \in [Thread -> 0..MaxCalls]
    <2>1. CASE Sleep(t)
      BY <1>0, <2>1 DEF Sleep, AtCheck, Calls, TypeOK
    <2>2. CASE ~Sleep(t)
      BY <1>0, <2>2 DEF AcquireTimesOut, WaitExpires, Connected, TypeOK
    <2> QED
      BY <2>1, <2>2
  <1>4. /\ pc' \in [Thread -> Place] /\ pc'[t] = v
        /\ \A u \in Thread : u # t => pc'[u] = pc[u]
    BY <1>0, <1>1
  <1>5. TypeOK'
    BY <1>0, <1>2, <1>3, <1>4 DEF TypeOK, Place
  <1>6. Counters'
    <2>1. Count(pc', Use) = Count(pc, Use) - Hit(pc[t], Use) + Hit(v, Use)
      BY <1>0, <1>4, CountMove
    <2>2. Hit(pc[t], Use) = Hit(v, Use) /\ Hit(v, Use) \in {0, 1}
      BY <1>1 DEF Hit
    <2> QED
      BY <1>0, <1>2, <2>1, <2>2, CountNat DEF Counters, TypeOK
  <1>7. Wakeups'
    <2>1. Count(pc', Ready) = Count(pc, Ready) - Hit(pc[t], Ready) + Hit(v, Ready)
      BY <1>0, <1>4, CountMove
    <2>2. Count(pc, Ready) \in Nat /\ Count(pc', Ready) \in Nat
      BY <1>0, <1>4, CountNat
    <2>3. CASE active >= PoolSize
      BY <1>0, <1>2, <2>2, <2>3 DEF Wakeups, TypeOK
    <2>4. CASE pc[t] = "waiting" /\ v = "expired"
      <3>1. Hit(pc[t], Ready) = 0 /\ Hit(v, Ready) = 1
        BY <2>4 DEF Hit, Ready
      <3> QED
        BY <1>0, <1>2, <2>1, <2>2, <2>4, <3>1 DEF Wakeups, TypeOK
    <2>5. CASE pc[t] = "connecting" /\ v = "holding"
      <3>1. Hit(pc[t], Ready) = 0 /\ Hit(v, Ready) = 0
        BY <2>5 DEF Hit, Ready
      <3>2. (\E u \in Thread : pc'[u] = "waiting") => \E u \in Thread : pc[u] = "waiting"
        BY <1>0, <1>1, <2>5
      <3> QED
        BY <1>0, <1>2, <2>1, <2>2, <3>1, <3>2 DEF Wakeups, TypeOK
    <2> QED
      BY <1>1, <2>3, <2>4, <2>5
  <1>8. Drained'
    BY <1>0, <1>1, <1>2 DEF Drained
  <1> QED
    BY <1>5, <1>6, <1>7, <1>8 DEF PoolInv
-----------------------------------------------------------------------------
(* A slot is given back and somebody is notified.                          *)

\* What NotifyOne does to the counts, when the notifier t leaves its slot.
LEMMA NotifyCounts ==
  ASSUME PoolInv, NEW t \in Thread, pc[t] \in Use,
         NotifyOne([pc EXCEPT ![t] = "idle"])
  PROVE  /\ pc' \in [Thread -> Place]
         /\ Count(pc', Use) = Count(pc, Use) - 1
         /\ stop' = stop \/ (stop = "draining" /\ stop' = "woken")
         /\ stop = "open" /\ (\E u \in Thread : pc'[u] = "waiting") =>
              Count(pc', Ready) = Count(pc, Ready) + 1 /\ \E u \in Thread : pc[u] = "waiting"
         /\ loop_stopped => \A u \in Thread : pc'[u] \in {"idle", "holding"}
  <1>0. /\ TypeOK /\ Drained /\ pc \in [Thread -> Place]
        /\ Count(pc, Use) \in Nat /\ Count(pc, Ready) \in Nat
    BY TypedPlaces, CountNat DEF PoolInv
  <1> DEFINE q == [pc EXCEPT ![t] = "idle"]
  <1>1. /\ q \in [Thread -> Place] /\ q[t] = "idle"
        /\ \A u \in Thread : u # t => q[u] = pc[u]
    BY <1>0 DEF Place
  <1>2. Count(q, Use) = Count(pc, Use) - 1
    <2>1. Count(q, Use) = Count(pc, Use) - Hit(pc[t], Use) + Hit(q[t], Use)
      <3> HIDE DEF q
      <3> QED BY <1>0, <1>1, CountMove
    <2>2. Hit(pc[t], Use) = 1 /\ Hit(q[t], Use) = 0
      BY <1>1 DEF Hit, Use
    <2> HIDE DEF q
    <2> QED
      BY <1>0, <2>1, <2>2
  <1>3. Count(q, Ready) = Count(pc, Ready)
    <2>1. Count(q, Ready) = Count(pc, Ready) - Hit(pc[t], Ready) + Hit(q[t], Ready)
      <3> HIDE DEF q
      <3> QED BY <1>0, <1>1, CountMove
    <2>2. Hit(pc[t], Ready) = 0 /\ Hit(q[t], Ready) = 0
      BY <1>1 DEF Hit, Use, Ready
    <2> HIDE DEF q
    <2> QED
      BY <1>0, <2>1, <2>2
  <1>4. CASE \E u \in Waiting : pc' = [q EXCEPT ![u] = "woken"] /\ stop' = stop
    <2>1. PICK u \in Thread : /\ pc[u] = "waiting" /\ stop' = stop
                              /\ pc' = [q EXCEPT ![u] = "woken"]
      BY <1>4 DEF Waiting
    <2>2. u # t /\ q[u] = "waiting"
      BY <1>0, <2>1 DEF Use
    <2>3. /\ pc' \in [Thread -> Place] /\ pc'[u] = "woken"
          /\ \A w \in Thread : w # u => pc'[w] = q[w]
      <3> HIDE DEF q
      <3> QED BY <1>1, <2>1 DEF Place
    <2>4. /\ Count(pc', Use) = Count(q, Use) - Hit(q[u], Use) + Hit(pc'[u], Use)
          /\ Count(pc', Ready) = Count(q, Ready) - Hit(q[u], Ready) + Hit(pc'[u], Ready)
      <3> HIDE DEF q
      <3> QED BY <1>1, <2>3, CountMove
    <2>5. /\ Hit(q[u], Use) = 0 /\ Hit(pc'[u], Use) = 0
          /\ Hit(q[u], Ready) = 0 /\ Hit(pc'[u], Ready) = 1
      BY <2>2, <2>3 DEF Hit, Use, Ready
    <2>6. /\ Count(pc', Use) = Count(pc, Use) - 1
          /\ Count(pc', Ready) = Count(pc, Ready) + 1
      <3> HIDE DEF q
      <3> QED BY <1>0, <1>2, <1>3, <2>4, <2>5
    <2>7. ~loop_stopped
      BY <1>0, <2>1 DEF Drained
    <2> QED
      BY <2>1, <2>3, <2>6, <2>7
  <1>5. CASE /\ pc' = q
             /\ \/ stop = "draining" /\ stop' = "woken"
                \/ Waiting = {} /\ stop' = stop
    <2>1. stop = "open" => \A u \in Thread : pc'[u] # "waiting"
      BY <1>0, <1>5 DEF Waiting
    <2>2. loop_stopped => \A u \in Thread : pc'[u] \in {"idle", "holding"}
      BY <1>0, <1>5 DEF Drained
    <2> QED
      BY <1>1, <1>2, <1>5, <2>1, <2>2
  <1>6. \/ \E u \in Waiting : pc' = [q EXCEPT ![u] = "woken"] /\ stop' = stop
        \/ stop = "draining" /\ stop' = "woken" /\ pc' = q
        \/ Waiting = {} /\ stop # "draining" /\ pc' = q /\ stop' = stop
    BY Zenon DEF NotifyOne
  <1> HIDE DEF q
  <1> QED
    BY <1>4, <1>5, <1>6

\* release() and a failed handshake keep PoolInv: the slot that is freed is
\* matched by a wakeup.
LEMMA GiveBackStep ==
  ASSUME PoolInv, NEW t \in Thread,
         ConnectFails(t) \/ \E open \in BOOLEAN : Release(t, open)
  PROVE  PoolInv'
  <1> USE PoolAssumption
  <1>0. /\ TypeOK /\ Counters /\ Wakeups /\ Drained
        /\ Count(pc, Use) \in Nat /\ Count(pc, Ready) \in Nat
    BY TypedPlaces, CountNat DEF PoolInv
  <1>1. /\ pc[t] \in Use /\ stop # "freed"
        /\ active' = active - 1
        /\ available' \in {available, available + 1}
        /\ NotifyOne([pc EXCEPT ![t] = "idle"])
        /\ calls' = calls
        /\ drain_timed_out' = drain_timed_out /\ loop_stopped' = loop_stopped
    BY DEF ConnectFails, Release, ends, Use
  <1>2. /\ pc' \in [Thread -> Place]
        /\ Count(pc', Use) = Count(pc, Use) - 1
        /\ stop' = stop \/ (stop = "draining" /\ stop' = "woken")
        /\ stop = "open" /\ (\E u \in Thread : pc'[u] = "waiting") =>
             Count(pc', Ready) = Count(pc, Ready) + 1 /\ \E u \in Thread : pc[u] = "waiting"
        /\ loop_stopped => \A u \in Thread : pc'[u] \in {"idle", "holding"}
    BY <1>1, NotifyCounts
  <1>3. Count(pc', Use) \in Nat
    BY <1>2, CountNat
  <1>4. Counters' /\ active' \in Nat /\ active > 0
    BY <1>0, <1>1, <1>2, <1>3 DEF Counters, TypeOK
  <1>5. TypeOK'
    BY <1>0, <1>1, <1>2, <1>4 DEF TypeOK, Place
  <1>6. Wakeups'
    BY <1>0, <1>1, <1>2, <1>4 DEF Wakeups, TypeOK
  <1>7. Drained'
    BY <1>0, <1>1, <1>2, <1>4 DEF Drained, TypeOK
  <1> QED
    BY <1>4, <1>5, <1>6, <1>7 DEF PoolInv
-----------------------------------------------------------------------------
(* The steps of shutdown().                                                *)

\* The steps of shutdown() keep PoolInv: the pool is cleared only with nothing
\* in use or with drain_timed_out set.
LEMMA StopStep ==
  ASSUME PoolInv, BeginShutdown \/ Drain \/ DrainTimesOut \/ Free
  PROVE  PoolInv'
  <1> USE PoolAssumption
  <1>0. /\ TypeOK /\ Counters /\ Wakeups /\ Drained
    BY DEF PoolInv
  <1>1. /\ pc' = pc /\ active' = active /\ calls' = calls
        /\ available' \in {0, available}
        /\ stop' # "open" /\ loop_stopped' \in BOOLEAN
        /\ loop_stopped' => \A t \in Thread : pc[t] \in {"idle", "holding"}
    <2>1. CASE BeginShutdown
      BY <1>0, <2>1 DEF BeginShutdown, Begins, DrainOrClear
    <2>2. CASE Drain \/ DrainTimesOut \/ Free
      BY <1>0, <2>2 DEF Drain, DrainOrClear, DrainTimesOut, Free, ends, Drained, TypeOK
    <2> QED
      BY <2>1, <2>2
  <1>2. TypeOK'
    <2>1. drain_timed_out' \in BOOLEAN
      <3>1. drain_timed_out \in BOOLEAN
        BY <1>0 DEF TypeOK
      <3>2. drain_timed_out' = drain_timed_out \/ drain_timed_out' = (active > 0)
        BY DEF BeginShutdown, Begins, Drain, DrainTimesOut, Free, ends
      <3>3. (active > 0) \in BOOLEAN
        OBVIOUS
      <3> QED
        BY <3>1, <3>2, <3>3
    <2>2. stop' \in {"open", "draining", "woken", "cleared", "freed"}
      BY DEF BeginShutdown, Drain, DrainOrClear, DrainTimesOut, Free
    <2> QED
      BY <1>0, <1>1, <2>1, <2>2 DEF TypeOK
  <1>3. Counters'
    BY <1>0, <1>1 DEF Counters, TypeOK
  <1>4. Wakeups'
    BY <1>1 DEF Wakeups
  <1>5. Drained'
    <2>1. CASE BeginShutdown \/ Drain
      <3>1. /\ drain_timed_out' = drain_timed_out /\ ~drain_timed_out
            /\ stop' = "draining" \/ (stop' = "cleared" /\ active = 0)
        BY <1>0, <2>1 DEF BeginShutdown, Begins, Drain, DrainOrClear, ends, Drained, TypeOK
      <3> QED
        BY <1>1, <3>1 DEF Drained
    <2>2. CASE DrainTimesOut
      <3>1. stop' = "cleared" /\ (~drain_timed_out' => ~(active > 0))
        BY <2>2, Zenon DEF DrainTimesOut
      <3>2. ~(active > 0) => active = 0
        BY <1>0 DEF TypeOK
      <3> QED
        BY <1>1, <3>1, <3>2, Zenon DEF Drained
    <2>3. CASE Free
      BY <1>0, <1>1, <2>3 DEF Free, ends, Drained
    <2> QED
      BY <2>1, <2>2, <2>3
  <1> QED
    BY <1>2, <1>3, <1>4, <1>5 DEF PoolInv

\* Every step of the pool keeps PoolInv.
LEMMA NextPool == PoolInv /\ [Next]_vars => PoolInv'
  <1> SUFFICES ASSUME PoolInv, [Next]_vars PROVE PoolInv'
    OBVIOUS
  <1>1. ASSUME NEW t \in Thread, Progress(t) \/ WaitExpires(t) PROVE PoolInv'
    BY <1>1, TakeStep, StayStep, GiveBackStep DEF Progress, Acquire
  <1>2. CASE BeginShutdown \/ Shutdown \/ DrainTimesOut
    BY <1>2, StopStep DEF Shutdown
  <1>3. CASE Freed \/ UNCHANGED vars
    <2>1. UNCHANGED <<available, active, pc, calls, stop, loop_stopped, drain_timed_out>>
      BY <1>3 DEF Freed, vars, ends
    <2>2. TypeOK'
      BY <2>1 DEF PoolInv, TypeOK
    <2>3. Counters' /\ Wakeups'
      BY <2>1 DEF PoolInv, Counters, Wakeups, Count
    <2>4. Drained'
      BY <2>1 DEF PoolInv, Drained
    <2> QED
      BY <2>2, <2>3, <2>4 DEF PoolInv
  <1> QED
    BY <1>1, <1>2, <1>3 DEF Next

\* PoolInv is an invariant of the specification.
LEMMA PoolAlways == Spec => []PoolInv
  BY InitPool, NextPool, PTL DEF Spec
-----------------------------------------------------------------------------
(* The theorems.                                                           *)

\* The pool's counters have their types, active_connections_ is the number of
\* slots in use, and the pool never exceeds pool_size, with handshakes made
\* outside the mutex that fail or succeed in any order.
THEOREM PoolBounded == Spec => [](TypeOK /\ NoSlotLeaks /\ CapacityBound)
  <1>1. PoolInv => TypeOK /\ NoSlotLeaks /\ CapacityBound
    <2> SUFFICES ASSUME PoolInv PROVE TypeOK /\ NoSlotLeaks /\ CapacityBound
      OBVIOUS
    <2>1. Count(pc, Use) = Cardinality(InUse)
      BY DEF Count, Use, InUse
    <2> QED
      BY <2>1 DEF PoolInv, Counters, NoSlotLeaks, CapacityBound
  <1> QED
    BY <1>1, PoolAlways, PTL

\* Until shutdown() begins, notify_one from release() and from a failed handshake
\* never loses a wakeup.
THEOREM PoolWakes == Spec => []NoLostWakeup
  <1>1. PoolInv => NoLostWakeup
    <2> SUFFICES ASSUME PoolInv, stop = "open", Waiting # {}, can_proceed
                 PROVE  \E t \in Thread : pc[t] \in {"woken", "expired"}
      BY DEF NoLostWakeup
    <2>1. /\ TypeOK /\ Counters /\ Wakeups /\ pc \in [Thread -> Place]
      BY TypedPlaces DEF PoolInv
    <2>2. active < PoolSize
      BY <2>1, PoolAssumption DEF can_proceed, Counters, TypeOK
    <2>3. PoolSize - active <= Count(pc, Ready)
      BY <2>1 DEF Wakeups, Waiting
    <2>4. Count(pc, Ready) # 0
      BY <2>1, <2>2, <2>3, PoolAssumption DEF TypeOK
    <2> QED
      BY <2>1, <2>4, CountNat DEF Ready
  <1> QED
    BY <1>1, PoolAlways, PTL

\* When the server loop stopped before shutdown(), the pool is freed with nothing
\* in use, unless the wait for it timed out.
THEOREM PoolDrains == Spec => []FreedOnlyWhenDrained
  <1>1. PoolInv => FreedOnlyWhenDrained
    <2> SUFFICES ASSUME PoolInv, stop = "freed", loop_stopped, ~drain_timed_out
                 PROVE  InUse = {}
      BY DEF FreedOnlyWhenDrained
    <2>1. TypeOK /\ pc \in [Thread -> Place] /\ Count(pc, Use) = 0
      BY TypedPlaces DEF PoolInv, Counters, Drained
    <2> QED
      BY <2>1, CountNat DEF Use, InUse
  <1> QED
    BY <1>1, PoolAlways, PTL
=============================================================================
