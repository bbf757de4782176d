----------------------------- MODULE CacheProofs -----------------------------
(***************************************************************************)
(* The lease of set_nx and the counter of incr, for any number of threads  *)
(* and any sequence of outages and lost replies.                           *)
(***************************************************************************)
EXTENDS Cache, TLAPS

Numbers == counter \in Nat /\ counted \in Nat

CacheInv == Numbers /\ NoCountLost /\ LockHeldOnce

\* Every action but four leaves the lock and the counter alone.
redisAndGhosts == <<lock, counter, holders, lost, counted>>

LEMMA InvInit == Init => CacheInv
  BY DEF Init, CacheInv, Numbers, NoCountLost, LockHeldOnce

\* A reply is only seen while Redis is up, and then the key has been set.
LEMMA SetNxKeeps ==
  ASSUME CacheInv, NEW c \in Clients, set_nx(c)
  PROVE  CacheInv'
<1> c # Free
  BY CacheAssumption DEF Free
<1>1. PICK r \in Replies :
        IF LockAcquired(r = "reply", lock = Free)
        THEN holders' = holders \cup {c} /\ lost' = lost \ {c}
        ELSE UNCHANGED leases
  BY DEF set_nx
<1>2. CASE lock # Free
  <2>1. UNCHANGED <<lock, leases>>
    BY <1>1, <1>2 DEF set_nx, LockAcquired
  <2> QED
    BY <2>1 DEF set_nx, leases, CacheInv, Numbers, NoCountLost, LockHeldOnce
<1>3. CASE lock = Free /\ r = "reply"
  <2>1. up
    BY <1>3 DEF Replies
  <2>2. lock' = c /\ holders' = holders \cup {c} /\ lost' = lost \ {c}
    BY <1>1, <1>3, <2>1 DEF set_nx, LockAcquired
  <2>3. holders \ lost = {}
    BY <1>3 DEF CacheInv, LockHeldOnce
  <2>4. LockHeldOnce'
    BY <2>2, <2>3 DEF LockHeldOnce, Free
  <2> QED
    BY <2>4 DEF set_nx, CacheInv, Numbers, NoCountLost
<1>4. CASE lock = Free /\ r # "reply"
  <2>1. UNCHANGED leases /\ holders \ lost = {}
    BY <1>1, <1>4 DEF LockAcquired, CacheInv, LockHeldOnce
  <2>2. LockHeldOnce'
    BY <2>1 DEF leases, LockHeldOnce
  <2> QED
    BY <2>2 DEF set_nx, CacheInv, Numbers, NoCountLost
<1> QED
  BY <1>2, <1>3, <1>4

\* An increment that returned was carried out.
LEMMA IncrKeeps ==
  ASSUME CacheInv, incr
  PROVE  CacheInv'
<1>1. PICK r \in Replies : counted' = counted + Returns(r = "reply")
  BY DEF incr
<1>2. UNCHANGED <<lock, holders, lost>>
  BY DEF incr, leases
<1>3. CASE up
  <2>1. counter' = counter + 1 /\ counted' \in {counted, counted + 1}
    BY <1>1, <1>3 DEF incr, Returns, CacheInv, Numbers
  <2> QED
    BY <1>2, <2>1 DEF CacheInv, Numbers, NoCountLost, LockHeldOnce
<1>4. CASE ~up
  <2>1. counter' = counter /\ counted' = counted
    BY <1>1, <1>4 DEF incr, Replies, Returns, CacheInv, Numbers
  <2> QED
    BY <1>2, <2>1 DEF CacheInv, Numbers, NoCountLost, LockHeldOnce
<1> QED
  BY <1>3, <1>4

LEMMA InvNext ==
  ASSUME CacheInv, [Next]_vars
  PROVE  CacheInv'
<1>1. ASSUME UNCHANGED redisAndGhosts
      PROVE  CacheInv'
  BY <1>1 DEF redisAndGhosts, CacheInv, Numbers, NoCountLost, LockHeldOnce
<1>2. CASE Initialize \/ Shutdown
  BY <1>1, <1>2 DEF Initialize, Shutdown, redisAndGhosts, redisVars, leases
<1>3. ASSUME NEW c \in Clients, Enter(c) \/ Get(c) \/ Load(c) \/ LoaderThrows(c) \/ Store(c)
      PROVE  CacheInv'
  <2>1. UNCHANGED redisAndGhosts
    BY <1>3 DEF Enter, Get, Load, LoaderThrows, Store, redisAndGhosts, redisVars, leases
  <2> QED
    BY <1>1, <2>1
<1>4. ASSUME NEW c \in Clients, set_nx(c)
      PROVE  CacheInv'
  BY <1>4, SetNxKeeps
<1>5. CASE incr
  BY <1>5, IncrKeeps
<1>6. CASE expire \/ Update \/ Invalidate \/ OtherShape \/ EntryExpires \/ RedisFails
  <2>1. UNCHANGED redisAndGhosts
    BY <1>6 DEF expire, Update, Invalidate, OtherShape, EntryExpires, RedisFails,
                redisAndGhosts, redisVars, leases
  <2> QED
    BY <1>1, <2>1
<1>7. CASE LockExpires
  BY <1>7 DEF LockExpires, CacheInv, Numbers, NoCountLost, LockHeldOnce
<1>8. ASSUME NEW c \in Clients, LostLeaseEnds(c)
      PROVE  CacheInv'
  <2>1. LockHeldOnce'
    BY <1>8 DEF LostLeaseEnds, redisVars, CacheInv, LockHeldOnce
  <2> QED
    BY <1>8, <2>1 DEF LostLeaseEnds, redisVars, CacheInv, Numbers, NoCountLost
<1>9. ASSUME NEW empty \in BOOLEAN, RedisReturns(empty)
      PROVE  CacheInv'
  <2>1. CASE empty
    BY <1>9, <2>1 DEF RedisReturns, CacheInv, Numbers, NoCountLost, LockHeldOnce
  <2>2. CASE ~empty
    BY <1>1, <1>9, <2>2 DEF RedisReturns, redisAndGhosts, redisVars, leases
  <2> QED
    BY <2>1, <2>2
<1>10. CASE UNCHANGED vars
  BY <1>1, <1>10 DEF vars, redisAndGhosts, redisVars, leases
<1> QED
  BY <1>2, <1>3, <1>4, <1>5, <1>6, <1>7, <1>8, <1>9, <1>10 DEF Next

\* For any number of threads and any outages and lost replies, a caller that
\* set_nx told true is alone with the key until its lease ends, except those
\* whose key Redis has lost.
THEOREM LeaseExclusive == Spec => []LockHeldOnce
<1>1. CacheInv => LockHeldOnce
  BY DEF CacheInv
<1> QED
  BY InvInit, InvNext, <1>1, PTL DEF Spec

\* Until Redis loses its data, no increment that returned to its caller is
\* missing from the counter.
THEOREM CountsKept == Spec => []NoCountLost
<1>1. CacheInv => NoCountLost
  BY DEF CacheInv
<1> QED
  BY InvInit, InvNext, <1>1, PTL DEF Spec
=============================================================================
