----------------------- MODULE DatabaseManagerProofs -----------------------
(***************************************************************************)
(* Proofs about DatabaseManager for any number of clients, replicas, calls *)
(* and attempts.                                                           *)
(***************************************************************************)
EXTENDS DatabaseManager, TLAPS

\* What holds of one call k when the primary has n commits.
CallInv(k, n) ==
  \* While a write that is not declared idempotent is being tried, none of
  \* its attempts has landed: they were retried on a confirmed rollback.
  /\ k.state = "running" /\ k.op \in Write \cup Raw => k.landed = 0
  \* A client has only been told of commits the primary has.
  /\ k.acked <= n /\ k.since <= n
  \* Only execute_read leaves the primary.
  /\ k.path # 0 => k.op = "execute_read"
  /\ k.op \in Write \cup Raw => k.landed <= 1
  /\ k.state = "returned" /\ k.op \in Writing => k.landed >= 1
  /\ k.op \in Reading => k.landed = 0
  /\ k.state = "returned" /\ k.op = "execute_read_primary"
       => k.seen >= k.since

\* The round robin stays within the pools.
InRange == replica_pools > 0 => current_replica < replica_pools

IndInv == TypeOK /\ InRange /\ \A c \in Client : CallInv(call[c], log)

\* No call has been made: the invariant holds.
LEMMA InitInv == Init => IndInv
<1> SUFFICES ASSUME Init PROVE IndInv
  OBVIOUS
<1>1. TypeOK
  BY ManagerAssumption
     DEF Init, TypeOK, CallType, Operation, Writing, Reading, Write,
         Idempotent, Raw
<1>2. ASSUME NEW c \in Client PROVE CallInv(call[c], log)
  <2>1. /\ call[c].state = "idle" /\ call[c].op = "execute_read"
        /\ call[c].path = 0 /\ call[c].landed = 0
        /\ call[c].acked = 0 /\ call[c].since = 0 /\ log = 0
    BY DEF Init
  <2> QED BY <2>1 DEF CallInv, Write, Raw
<1>3. InRange
  BY <1>1 DEF Init, InRange, TypeOK
<1> QED BY <1>1, <1>2, <1>3 DEF IndInv

\* What a failed attempt leaves of a call: only the server it was tried on may
\* count one more invocation.
LEMMA AfterFields ==
  ASSUME NEW k \in CallType, NEW how \in Outcome
  PROVE  LET j == After(k, how) IN
         /\ j \in CallType
         /\ j.state = k.state /\ j.op = k.op /\ j.path = k.path
         /\ j.acked = k.acked /\ j.since = k.since /\ j.seen = k.seen
         /\ j.landed = IF how = "landed" THEN k.landed + 1 ELSE k.landed
         /\ j.attempt = k.attempt + 1
         /\ j.runs[ServerOf(k)] \in {k.runs[ServerOf(k)], k.runs[ServerOf(k)] + 1}
         /\ \A s \in Server \ {ServerOf(k)} : j.runs[s] = k.runs[s]
<1> DEFINE n == IF how = "unborrowed" THEN k.runs[ServerOf(k)]
                                      ELSE k.runs[ServerOf(k)] + 1
           u == [k.runs EXCEPT ![ServerOf(k)] = n]
           l == IF how = "landed" THEN k.landed + 1 ELSE k.landed
<1>1. /\ k.runs \in [Server -> Nat] /\ ServerOf(k) \in Server
      /\ k.attempt + 1 \in Nat /\ l \in Nat
  BY DEF CallType, ServerOf, Server
<1>2. /\ u \in [Server -> Nat]
      /\ u[ServerOf(k)] \in {k.runs[ServerOf(k)], k.runs[ServerOf(k)] + 1}
      /\ \A s \in Server \ {ServerOf(k)} : u[s] = k.runs[s]
  BY <1>1
<1>3. After(k, how) = [k EXCEPT !.runs = u, !.attempt = k.attempt + 1, !.landed = l]
  BY <1>1 DEF After, CallType
<1> HIDE DEF u, l
<1>4. After(k, how) \in CallType
  BY <1>1, <1>2, <1>3 DEF CallType
<1>5. /\ After(k, how).runs = u /\ After(k, how).landed = l
      /\ After(k, how).attempt = k.attempt + 1
  BY <1>3 DEF CallType
<1>6. LET j == After(k, how) IN
      /\ j.state = k.state /\ j.op = k.op /\ j.path = k.path
      /\ j.acked = k.acked /\ j.since = k.since /\ j.seen = k.seen
  BY <1>3 DEF CallType
<1> QED BY <1>2, <1>4, <1>5, <1>6 DEF l

\* A successful attempt counts an invocation on the server it ran on.
LEMMA Invoked ==
  ASSUME NEW k \in CallType
  PROVE  LET u == [k.runs EXCEPT ![ServerOf(k)] = @ + 1] IN
         /\ u \in [Server -> Nat]
         /\ u[ServerOf(k)] = k.runs[ServerOf(k)] + 1
         /\ \A s \in Server \ {ServerOf(k)} : u[s] = k.runs[s]
<1>1. k.runs \in [Server -> Nat] /\ ServerOf(k) \in Server
  BY DEF CallType, ServerOf, Server
<1> QED BY <1>1

\* A step that replaces one call and adds at most commits keeps the
\* invariant if the new call satisfies its part.
LEMMA OneCall ==
  ASSUME IndInv, NEW c \in Client, NEW k \in CallType,
         call' = [call EXCEPT ![c] = k],
         log' \in Nat, log' >= log, CallInv(k, log'), k.path <= replica_pools,
         current_replica' \in 0..MaxReplicas, calls' \in 0..MaxCalls, InRange',
         UNCHANGED <<replica_pools, max_attempts, replayed>>
  PROVE  IndInv'
<1>1. TypeOK'
  BY DEF IndInv, TypeOK
<1>2. ASSUME NEW d \in Client PROVE CallInv(call'[d], log')
  <2>1. CASE d = c
    BY <2>1 DEF IndInv, TypeOK
  <2>2. CASE d # c
    <3>1. call'[d] = call[d] /\ call[d] \in CallType /\ log \in Nat
      BY <2>2 DEF IndInv, TypeOK
    <3>2. CallInv(call[d], log)
      BY DEF IndInv
    <3>3. call[d].acked <= log' /\ call[d].since <= log'
      BY <3>1, <3>2 DEF CallInv, CallType
    <3> QED BY <3>1, <3>2, <3>3 DEF CallInv
  <2> QED BY <2>1, <2>2
<1> QED BY <1>1, <1>2 DEF IndInv

\* Calls, attempts, retries, the fallback and replication keep it.
LEMMA NextInv == IndInv /\ [Next]_vars => IndInv'
<1> SUFFICES ASSUME IndInv, [Next]_vars PROVE IndInv'
  OBVIOUS
<1>t. /\ TypeOK /\ log \in Nat /\ replica_pools \in Nat
      /\ MaxReplicas \in Nat /\ MaxCalls \in Nat /\ InRange
  BY ManagerAssumption DEF IndInv, TypeOK
<1>c. ASSUME NEW c \in Client
      PROVE  /\ call[c] \in CallType /\ CallInv(call[c], log)
             /\ call[c].path <= replica_pools
  BY DEF IndInv, TypeOK
<1> USE DEF Operation, Writing, Reading, Write, Idempotent, Raw
<1>1. ASSUME NEW c \in Client, Call(c) PROVE IndInv'
  <2>1. PICK op \in Operation :
          /\ call' = [call EXCEPT ![c] =
               [call[c] EXCEPT !.state = "running", !.op = op, !.attempt = 0,
                         !.runs = [s \in Server |-> 0], !.landed = 0, !.seen = 0,
                         !.since = call[c].acked,
                         !.path = IF OnReplica(op) THEN current_replica + 1
                                                   ELSE 0]]
          /\ current_replica' = IF OnReplica(op) THEN NextReplica
                                                 ELSE current_replica
    BY <1>1, <1>t DEF Call, TypeOK
  <2> DEFINE k == [call[c] EXCEPT !.state = "running", !.op = op,
                     !.attempt = 0, !.runs = [s \in Server |-> 0], !.landed = 0, !.seen = 0,
                     !.since = call[c].acked,
                     !.path = IF OnReplica(op) THEN current_replica + 1 ELSE 0]
  <2> DEFINE p == IF OnReplica(op) THEN current_replica + 1 ELSE 0
  <2>2. p \in 0..MaxReplicas /\ p <= replica_pools
    BY <1>t DEF OnReplica, InRange, TypeOK
  <2>3. current_replica' \in 0..MaxReplicas /\ InRange'
    <3>1. CASE OnReplica(op)
      <4>1. replica_pools' = replica_pools /\ replica_pools > 0
        BY <1>1, <3>1 DEF Call, OnReplica
      <4>2. (current_replica + 1) % replica_pools \in 0..(replica_pools - 1)
        BY <4>1, <1>t DEF TypeOK
      <4> QED BY <2>1, <3>1, <4>1, <4>2, <1>t DEF NextReplica, InRange, TypeOK
    <3>2. CASE ~OnReplica(op)
      BY <1>1, <2>1, <3>2, <1>t DEF Call, InRange, TypeOK
    <3> QED BY <3>1, <3>2
  <2>k. /\ k.state = "running" /\ k.op = op /\ k.landed = 0
        /\ k.since = call[c].acked /\ k.acked = call[c].acked
        /\ k.path = p
    BY <1>c DEF CallType
  <2>a. k \in CallType /\ k.path <= replica_pools
    <3>1. k = [call[c] EXCEPT !.state = "running", !.op = op,
                 !.attempt = 0, !.runs = [s \in Server |-> 0], !.landed = 0, !.seen = 0,
                 !.since = call[c].acked, !.path = p]
      OBVIOUS
    <3>2. call[c].acked \in Nat
      BY <1>c DEF CallType
    <3> HIDE DEF p, k
    <3>3. k \in CallType
      BY <2>2, <3>1, <3>2, <1>c DEF CallType
    <3> QED BY <2>2, <2>k, <3>3
  <2>4. CallInv(k, log)
    BY <2>k, <1>c DEF CallInv, OnReplica
  <2>5. UNCHANGED <<replica_pools, max_attempts, log, replayed>>
        /\ calls' \in 0..MaxCalls
    BY <1>1, <1>t DEF Call, TypeOK
  <2>6. call' = [call EXCEPT ![c] = k]
    BY <2>1
  <2> HIDE DEF k
  <2>7. log' \in Nat /\ log' >= log /\ CallInv(k, log')
    BY <2>4, <2>5, <1>t
  <2> QED BY <2>3, <2>a, <2>5, <2>6, <2>7, OneCall
<1>2. ASSUME NEW c \in Client, AttemptSucceeds(c) PROVE IndInv'
  <2> DEFINE k == [call[c] EXCEPT
                     !.state = "returned", !.runs[ServerOf(call[c])] = @ + 1,
                     !.landed = IF call[c].op \in Writing THEN @ + 1 ELSE @,
                     !.acked = IF call[c].op \in Writing THEN log + 1 ELSE @,
                     !.seen = IF call[c].path = 0 THEN log
                                                  ELSE replayed[call[c].path]]
  <2>1. call' = [call EXCEPT ![c] = k] /\ call[c].state = "running"
    BY <1>2 DEF AttemptSucceeds
  <2>2. log' = (IF call[c].op \in Writing THEN log + 1 ELSE log)
        /\ UNCHANGED <<replica_pools, current_replica, max_attempts, replayed,
                       calls>>
    BY <1>2 DEF AttemptSucceeds, Landing
  <2> DEFINE s == IF call[c].path = 0 THEN log ELSE replayed[call[c].path]
             a == IF call[c].op \in Writing THEN log + 1 ELSE call[c].acked
             l == IF call[c].op \in Writing THEN call[c].landed + 1
                                            ELSE call[c].landed
             u == [call[c].runs EXCEPT ![ServerOf(call[c])] = @ + 1]
  <2>3. k \in CallType /\ k.path <= replica_pools
    <3>1. s \in Nat /\ a \in Nat /\ l \in Nat
      BY <1>t, <1>c DEF CallType, TypeOK
    <3>u. u \in [Server -> Nat]
      BY <1>c, Invoked
    <3>2. k = [call[c] EXCEPT !.state = "returned", !.runs = u, !.landed = l,
                              !.acked = a, !.seen = s]
      BY <1>c DEF CallType
    <3> HIDE DEF s, a, l, u, k
    <3> QED BY <3>1, <3>u, <3>2, <1>c DEF CallType
  <2>4. CallInv(k, log')
    BY <2>1, <2>2, <1>t, <1>c DEF CallInv, CallType
  <2>5. current_replica' \in 0..MaxReplicas /\ calls' \in 0..MaxCalls
        /\ log' \in Nat /\ log' >= log /\ InRange'
    BY <2>2, <1>t DEF TypeOK, InRange
  <2> HIDE DEF k
  <2> QED BY <2>1, <2>2, <2>3, <2>4, <2>5, OneCall
<1>f. ASSUME NEW c \in Client, NEW e \in Error, NEW how \in Outcome,
             Fails(call[c], e, how)
      PROVE  /\ log' \in Nat /\ log' >= log
             /\ how = "landed" => call[c].op \in Writing /\ e \notin RolledBack
             /\ call[c].state = "running"
             /\ UNCHANGED <<replica_pools, max_attempts, replayed>>
             /\ current_replica' \in 0..MaxReplicas /\ calls' \in 0..MaxCalls
             /\ InRange'
  BY <1>f, <1>t DEF Fails, Landing, Leaves, TypeOK, InRange
<1>3. ASSUME NEW c \in Client, Retry(c) PROVE IndInv'
  <2>1. PICK e \in Error, how \in Outcome :
          /\ Fails(call[c], e, how) /\ CanRetry(call[c], e)
          /\ call' = [call EXCEPT ![c] = After(call[c], how)]
    BY <1>3, <1>t DEF Retry, TypeOK
  <2>2. After(call[c], how) \in CallType
        /\ After(call[c], how).path <= replica_pools
    BY <1>c, AfterFields
  <2>3. call[c].op \in Write \cup Raw => how # "landed"
    BY <2>1, <1>f DEF CanRetry, Transient, is_transient_pqxx_write
  <2>4. CallInv(After(call[c], how), log')
    BY <2>1, <2>3, <1>f, <1>t, <1>c, AfterFields DEF CallInv, CallType
  <2> QED BY <2>1, <2>2, <2>4, <1>f, OneCall
<1>4. ASSUME NEW c \in Client, FallBack(c) PROVE IndInv'
  <2>1. PICK e \in Error, how \in Outcome :
          /\ Fails(call[c], e, how) /\ call[c].path # 0
          /\ call' = [call EXCEPT ![c] =
               [After(call[c], how) EXCEPT !.path = 0, !.attempt = 0]]
    BY <1>4, <1>t DEF FallBack, TypeOK
  <2> DEFINE k == [After(call[c], how) EXCEPT !.path = 0, !.attempt = 0]
  <2> DEFINE j == After(call[c], how)
  <2>a. /\ j \in CallType
        /\ j.state = call[c].state /\ j.op = call[c].op
        /\ j.acked = call[c].acked /\ j.since = call[c].since
        /\ j.landed = IF how = "landed" THEN call[c].landed + 1 ELSE call[c].landed
    BY <1>c, AfterFields
  <2>o. how # "landed"
    BY <2>1, <1>f, <1>c DEF CallInv
  <2>b. /\ k.state = j.state /\ k.op = j.op /\ k.path = 0
        /\ k.acked = j.acked /\ k.since = j.since /\ k.landed = j.landed
    <3> HIDE DEF j
    <3> QED BY <2>a DEF CallType, j
  <2>2. k \in CallType /\ k.path <= replica_pools
    <3>1. k = [j EXCEPT !.path = 0, !.attempt = 0]
      OBVIOUS
    <3>2. 0 \in 0..MaxReplicas /\ 0 \in Nat /\ 0 <= replica_pools
      BY <1>t
    <3> HIDE DEF j, k
    <3>3. k \in CallType
      BY <3>1, <3>2, <2>a DEF CallType
    <3> QED BY <3>2, <3>3, <2>b
  <2>3. CallInv(k, log')
    <3>1. call[c].state = "running" /\ log' >= log /\ log' \in Nat
      BY <2>1, <1>f
    <3>2. CallInv(call[c], log) /\ call[c] \in CallType
      BY <1>c
    <3> HIDE DEF k, j
    <3> QED BY <3>1, <3>2, <2>a, <2>b, <2>o, <1>t DEF CallInv, CallType
  <2>4. call' = [call EXCEPT ![c] = k]
    BY <2>1
  <2>5. /\ log' \in Nat /\ log' >= log /\ InRange'
        /\ UNCHANGED <<replica_pools, max_attempts, replayed>>
        /\ current_replica' \in 0..MaxReplicas /\ calls' \in 0..MaxCalls
    BY <2>1, <1>f
  <2> HIDE DEF k
  <2> QED BY <2>2, <2>3, <2>4, <2>5, OneCall
<1>5. ASSUME NEW c \in Client, Throw(c) PROVE IndInv'
  <2>1. PICK e \in Error, how \in Outcome :
          /\ Fails(call[c], e, how)
          /\ call' = [call EXCEPT ![c] =
               [After(call[c], how) EXCEPT !.state = "threw"]]
    BY <1>5, <1>t DEF Throw, TypeOK
  <2> DEFINE k == [After(call[c], how) EXCEPT !.state = "threw"]
  <2>a. After(call[c], how) \in CallType
    BY <1>c, AfterFields
  <2>2. k \in CallType /\ k.path <= replica_pools
    BY <2>a, <1>c, <1>t, AfterFields DEF CallType
  <2>3. CallInv(k, log')
    <3>1. /\ k.state = "threw" /\ k.op = call[c].op /\ k.path = call[c].path
          /\ k.acked = call[c].acked /\ k.since = call[c].since
          /\ k.landed = IF how = "landed" THEN call[c].landed + 1 ELSE call[c].landed
      BY <2>a, <1>c, AfterFields DEF CallType
    <3> HIDE DEF k
    <3> QED BY <3>1, <2>1, <1>f, <1>t, <1>c DEF CallInv, CallType
  <2>4. call' = [call EXCEPT ![c] = k]
    BY <2>1
  <2>5. /\ log' \in Nat /\ log' >= log /\ InRange'
        /\ UNCHANGED <<replica_pools, max_attempts, replayed>>
        /\ current_replica' \in 0..MaxReplicas /\ calls' \in 0..MaxCalls
    BY <2>1, <1>f
  <2> HIDE DEF k
  <2> QED BY <2>2, <2>3, <2>4, <2>5, OneCall
<1>6. ASSUME NEW i \in 1..MaxReplicas, Replay(i) PROVE IndInv'
  BY <1>6, <1>t DEF Replay, IndInv, TypeOK, CallInv, InRange
<1>7. CASE UNCHANGED vars
  BY <1>7 DEF vars, IndInv, TypeOK, CallInv, InRange
<1> QED
  BY <1>1, <1>2, <1>3, <1>4, <1>5, <1>6, <1>7 DEF Next, Done

\* However answers are lost and attempts repeated, a write that is not
\* declared idempotent commits at most once.
THEOREM WritesOnce == Spec => []CommitsAtMostOnce
<1>1. IndInv => CommitsAtMostOnce
  BY DEF IndInv, CallInv, CommitsAtMostOnce
<1> QED BY InitInv, NextInv, <1>1, PTL DEF Spec

\* execute_read_primary never misses a write its client saw return.
THEOREM PrimaryReadsFresh == Spec => []ReadYourWrites
<1>1. IndInv => ReadYourWrites
  BY DEF IndInv, CallInv, ReadYourWrites
<1> QED BY InitInv, NextInv, <1>1, PTL DEF Spec
-----------------------------------------------------------------------------
(* Attempts.  max_attempts and replica_pools are fixed at initialize().    *)

\* The attempts of one Retry::run.
Tries == IF max_attempts = 0 THEN 1 ELSE max_attempts

\* What holds of the attempts of one call: no server is tried more often than
\* one Retry::run allows, and a call that is on a replica has not been on the
\* primary yet.
RunsInv(k) ==
  /\ \A s \in Server : k.runs[s] <= Tries
  /\ k.runs["replica"] > 0 => k.op = "execute_read" /\ replica_pools > 0
  /\ k.state = "running" =>
       /\ k.attempt < Tries
       /\ k.runs[ServerOf(k)] <= k.attempt
       /\ k.path # 0 => k.runs["primary"] = 0

RunsBounded == \A c \in Client : RunsInv(call[c])

\* No attempt has been made.
LEMMA InitRuns == Init => RunsBounded
<1> SUFFICES ASSUME Init, NEW c \in Client PROVE RunsInv(call[c])
  BY DEF RunsBounded
<1>1. call[c].runs = [s \in Server |-> 0] /\ call[c].state = "idle"
  BY DEF Init
<1>2. Tries \in Nat
  BY ManagerAssumption DEF Init, Tries
<1> QED BY <1>1, <1>2 DEF RunsInv, Server

\* Calls, attempts, retries and the fallback keep the count.
LEMMA NextRuns == IndInv /\ RunsBounded /\ [Next]_vars => RunsBounded'
<1> SUFFICES ASSUME IndInv, RunsBounded, [Next]_vars PROVE RunsBounded'
  OBVIOUS
<1>t. /\ call \in [Client -> CallType] /\ Tries \in Nat /\ Tries > 0
      /\ replica_pools \in Nat /\ max_attempts \in Nat
  BY ManagerAssumption DEF IndInv, TypeOK, Tries
<1>c. ASSUME NEW c \in Client
      PROVE  /\ call[c] \in CallType /\ RunsInv(call[c])
             /\ call[c].path # 0 => call[c].op = "execute_read" /\ replica_pools > 0
  <2>1. call[c] \in CallType /\ RunsInv(call[c])
    BY <1>t DEF RunsBounded
  <2>2. CallInv(call[c], log) /\ call[c].path <= replica_pools
    BY DEF IndInv, TypeOK
  <2>3. call[c].path \in Nat
    BY <2>1, ManagerAssumption DEF CallType
  <2> QED BY <1>t, <2>1, <2>2, <2>3 DEF CallInv
<1>u. replica_pools' = replica_pools /\ max_attempts' = max_attempts
  <2>1. CASE UNCHANGED vars \/ Done
    BY <2>1 DEF Done, vars
  <2>2. CASE \E c \in Client : Call(c) \/ AttemptSucceeds(c)
    BY <2>2 DEF Call, AttemptSucceeds
  <2>3. CASE \E c \in Client : Retry(c) \/ FallBack(c) \/ Throw(c)
    BY <2>3 DEF Retry, FallBack, Throw, Fails
  <2>4. CASE \E i \in 1..MaxReplicas : Replay(i)
    BY <2>4 DEF Replay
  <2> QED BY <2>1, <2>2, <2>3, <2>4 DEF Next
<1>s. ASSUME NEW c \in Client, NEW k, call' = [call EXCEPT ![c] = k], RunsInv(k)
      PROVE  RunsBounded'
  <2> SUFFICES ASSUME NEW d \in Client PROVE RunsInv(call[d])'
    BY DEF RunsBounded
  <2>1. call'[d] = IF d = c THEN k ELSE call[d]
    BY <1>s, <1>t
  <2>2. RunsInv(call'[d])
    BY <2>1, <1>s, <1>c
  <2> QED BY <2>2, <1>u DEF RunsInv, Tries
<1>b. ASSUME NEW c \in Client
      PROVE  /\ call[c].runs \in [Server -> Nat] /\ call[c].attempt \in Nat
             /\ ServerOf(call[c]) \in Server
  BY <1>c DEF CallType, ServerOf, Server
<1>1. ASSUME NEW c \in Client, Call(c) PROVE RunsBounded'
  <2>1. PICK op \in Operation :
          call' = [call EXCEPT ![c] =
               [call[c] EXCEPT !.state = "running", !.op = op, !.attempt = 0,
                         !.runs = [s \in Server |-> 0], !.landed = 0, !.seen = 0,
                         !.since = call[c].acked,
                         !.path = IF OnReplica(op) THEN current_replica + 1
                                                   ELSE 0]]
    BY <1>1, <1>t DEF Call
  <2> DEFINE k == [call[c] EXCEPT !.state = "running", !.op = op,
                     !.attempt = 0, !.runs = [s \in Server |-> 0], !.landed = 0, !.seen = 0,
                     !.since = call[c].acked,
                     !.path = IF OnReplica(op) THEN current_replica + 1 ELSE 0]
  <2>2. k.attempt = 0 /\ k.runs = [s \in Server |-> 0]
    BY <1>c DEF CallType
  <2> HIDE DEF k
  <2>4. RunsInv(k)
    BY <2>2, <1>t DEF RunsInv, Server, ServerOf
  <2>5. call' = [call EXCEPT ![c] = k]
    BY <2>1 DEF k
  <2> QED BY <2>4, <2>5, <1>s
<1>2. ASSUME NEW c \in Client, AttemptSucceeds(c) PROVE RunsBounded'
  <2> DEFINE k == [call[c] EXCEPT
                     !.state = "returned", !.runs[ServerOf(call[c])] = @ + 1,
                     !.landed = IF call[c].op \in Writing THEN @ + 1 ELSE @,
                     !.acked = IF call[c].op \in Writing THEN log + 1 ELSE @,
                     !.seen = IF call[c].path = 0 THEN log
                                                  ELSE replayed[call[c].path]]
  <2>1. call' = [call EXCEPT ![c] = k] /\ call[c].state = "running"
    BY <1>2 DEF AttemptSucceeds
  <2> DEFINE u == [call[c].runs EXCEPT ![ServerOf(call[c])] = @ + 1]
  <2>2. k.state = "returned" /\ k.op = call[c].op /\ k.runs = u
    BY <1>c DEF CallType
  <2>3. /\ u[ServerOf(call[c])] = call[c].runs[ServerOf(call[c])] + 1
        /\ \A s \in Server \ {ServerOf(call[c])} : u[s] = call[c].runs[s]
    BY <1>c, Invoked
  <2> HIDE DEF k, u
  <2>4. RunsInv(k)
    BY <2>1, <2>2, <2>3, <1>b, <1>c, <1>t DEF RunsInv, Server, ServerOf
  <2> QED BY <2>1, <2>4, <1>s
\* A failed attempt leaves the counts within what the path allows.
<1>a. ASSUME NEW c \in Client, NEW how \in Outcome, call[c].state = "running"
      PROVE  LET j == After(call[c], how) IN
             /\ j \in CallType /\ j.state = call[c].state /\ j.op = call[c].op
             /\ j.path = call[c].path /\ j.attempt = call[c].attempt + 1
             /\ \A s \in Server : j.runs[s] <= Tries
             /\ j.runs["replica"] > 0 => j.op = "execute_read" /\ replica_pools > 0
             /\ j.runs[ServerOf(j)] <= j.attempt
             /\ j.path # 0 => j.runs["primary"] = 0
  <2> DEFINE j == After(call[c], how)
  <2>1. /\ j \in CallType /\ j.state = call[c].state /\ j.op = call[c].op
        /\ j.path = call[c].path /\ j.attempt = call[c].attempt + 1
        /\ j.runs[ServerOf(call[c])] \in {call[c].runs[ServerOf(call[c])],
                                         call[c].runs[ServerOf(call[c])] + 1}
        /\ \A s \in Server \ {ServerOf(call[c])} : j.runs[s] = call[c].runs[s]
    BY <1>c, AfterFields
  <2> HIDE DEF j
  <2>2. j.runs \in [Server -> Nat]
    BY <2>1 DEF CallType
  <2> QED BY <2>1, <2>2, <1>a, <1>b, <1>c, <1>t DEF RunsInv, Server, ServerOf, j
<1>3. ASSUME NEW c \in Client, Retry(c) PROVE RunsBounded'
  <2>1. PICK e \in Error, how \in Outcome :
          /\ Fails(call[c], e, how) /\ CanRetry(call[c], e)
          /\ call' = [call EXCEPT ![c] = After(call[c], how)]
    BY <1>3, <1>t DEF Retry
  <2>2. call[c].state = "running" /\ call[c].attempt + 1 < Tries
    BY <2>1, <1>t, <1>b DEF Fails, CanRetry, Tries
  <2>3. RunsInv(After(call[c], how))
    BY <2>2, <1>a, <1>b DEF RunsInv
  <2> QED BY <2>1, <2>3, <1>s
<1>4. ASSUME NEW c \in Client, FallBack(c) PROVE RunsBounded'
  <2>1. PICK e \in Error, how \in Outcome :
          /\ Fails(call[c], e, how) /\ call[c].path # 0
          /\ call' = [call EXCEPT ![c] =
               [After(call[c], how) EXCEPT !.path = 0, !.attempt = 0]]
    BY <1>4, <1>t DEF FallBack
  <2> DEFINE j == After(call[c], how)
             k == [j EXCEPT !.path = 0, !.attempt = 0]
  <2>2. call[c].state = "running"
    BY <2>1 DEF Fails
  <2>3. /\ j \in CallType /\ j.op = call[c].op /\ j.path = call[c].path
        /\ \A s \in Server : j.runs[s] <= Tries
        /\ j.runs["replica"] > 0 => j.op = "execute_read" /\ replica_pools > 0
        /\ j.path # 0 => j.runs["primary"] = 0
    BY <1>a, <2>2
  <2>5. call' = [call EXCEPT ![c] = k]
    BY <2>1
  <2> HIDE DEF j
  <2>4. k.path = 0 /\ k.attempt = 0 /\ k.runs = j.runs /\ k.op = j.op
    BY <2>3 DEF CallType
  <2> HIDE DEF k
  <2>6. ServerOf(k) = "primary" /\ k.runs["primary"] = 0
    BY <2>1, <2>3, <2>4 DEF ServerOf
  <2>9. RunsInv(k)
    BY <2>3, <2>4, <2>6, <1>t DEF RunsInv
  <2> QED BY <2>5, <2>9, <1>s
<1>5. ASSUME NEW c \in Client, Throw(c) PROVE RunsBounded'
  <2>1. PICK e \in Error, how \in Outcome :
          /\ Fails(call[c], e, how) /\ call[c].path = 0
          /\ call' = [call EXCEPT ![c] =
               [After(call[c], how) EXCEPT !.state = "threw"]]
    BY <1>5, <1>t DEF Throw
  <2> DEFINE k == [After(call[c], how) EXCEPT !.state = "threw"]
  <2>2. call' = [call EXCEPT ![c] = k] /\ call[c].state = "running"
    BY <2>1 DEF Fails
  <2> DEFINE j == After(call[c], how)
  <2>3. /\ j \in CallType /\ \A s \in Server : j.runs[s] <= Tries
        /\ j.runs["replica"] > 0 => j.op = "execute_read" /\ replica_pools > 0
    BY <1>a, <2>2
  <2>4. k.state = "threw" /\ k.op = j.op /\ k.runs = j.runs
    BY <2>3 DEF CallType
  <2> HIDE DEF k, j
  <2>5. RunsInv(k)
    BY <2>3, <2>4 DEF RunsInv
  <2> QED BY <2>2, <2>5, <1>s
<1>6. ASSUME UNCHANGED call PROVE RunsBounded'
  BY <1>6, <1>u DEF RunsBounded, RunsInv, Tries
<1>7. ASSUME NEW i \in 1..MaxReplicas, Replay(i) PROVE RunsBounded'
  BY <1>6, <1>7 DEF Replay
<1>8. CASE Done \/ UNCHANGED vars
  BY <1>6, <1>8 DEF Done, vars
<1> QED BY <1>1, <1>2, <1>3, <1>4, <1>5, <1>7, <1>8 DEF Next

\* Whatever fails, the caller's function runs at most max_attempts times on the
\* primary and as often on a replica (Retry::run, execute_read's fallback), and
\* no call names a pool that was not reached at boot.
THEOREM AttemptsAreBounded == Spec => []AttemptsBounded
<1>1. IndInv /\ RunsBounded => AttemptsBounded
  BY DEF IndInv, TypeOK, RunsBounded, RunsInv, AttemptsBounded, Tries
<1> QED BY InitInv, NextInv, InitRuns, NextRuns, <1>1, PTL DEF Spec
=============================================================================
