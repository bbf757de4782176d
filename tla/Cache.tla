-------------------------------- MODULE Cache --------------------------------
(***************************************************************************)
(* Cache (cache/Cache.hpp): the fail-open wrapper around a Redis client,   *)
(* its global instance, and cached(), the read-through helper, run by      *)
(* several threads against a source that changes.  Redis may be down, may  *)
(* come back empty, and may carry out a command whose reply is lost.  A    *)
(* call of the Redis client is one step; get() hands out a reference that  *)
(* is not kept from one call to the next.                                  *)
(***************************************************************************)
EXTENDS Integers, FiniteSets

CONSTANTS
  Clients,      \* threads that use the cache
  ttl_sec,      \* the TTL they pass to cached()
  MaxVersion,   \* bound on the updates of the source
  MaxCount      \* bound on the counter

ASSUME CacheAssumption ==
  /\ ttl_sec \in Nat \ {0} /\ MaxVersion \in Nat /\ MaxCount \in Nat
  /\ "free" \notin Clients

VARIABLES
  manager,   \* global_cache: "null", "failed" (its initialize threw), "ready"
  up,        \* Redis can be reached
  entry,     \* what Redis holds for the key of cached()
  lock,      \* who has set the key of set_nx
  counter,   \* what Redis holds for the key of incr
  source,    \* the version of what the loader reads
  writer,    \* "idle", or "invalidate": the source is updated, del is not called
  pc, value, \* of each client in cached(): where it is, and what it has loaded
  holders,   \* clients that set_nx told true and whose lease has not ended
  lost,      \* those of them whose key Redis has lost before that
  counted    \* calls of incr that returned since Redis last lost its data

redisVars  == <<entry, lock, counter>>
clientVars == <<pc, value>>
leases     == <<holders, lost>>
vars == <<manager, up, redisVars, source, writer, clientVars, leases, counted>>

Versions == 0..MaxVersion
Absent   == [held |-> FALSE, version |-> 0, expires |-> FALSE, usable |-> FALSE]
Free     == "free"

Init ==
  /\ manager = "null" /\ up \in BOOLEAN
  /\ entry = Absent /\ lock = Free /\ counter = 0
  /\ source = 0 /\ writer = "idle"
  /\ pc = [c \in Clients |-> "idle"] /\ value = [c \in Clients |-> 0]
  /\ holders = {} /\ lost = {} /\ counted = 0
-----------------------------------------------------------------------------
(* The global instance.                                                    *)

is_initialized == manager = "ready"

\* initialize and initialize_with_sentinel: the instance is installed before
\* its ping, and stays when the ping throws.
Initialize ==
  /\ manager = "null" /\ manager' = IF up THEN "ready" ELSE "failed"
  /\ UNCHANGED <<up, redisVars, source, writer, clientVars, leases, counted>>

Shutdown ==
  /\ manager # "null" /\ manager' = "null"
  /\ UNCHANGED <<up, redisVars, source, writer, clientVars, leases, counted>>
-----------------------------------------------------------------------------
(* Commands.  Every wrapper throws before initialize and after shutdown.   *)

\* What the client sees of a command: its reply, or an error.
Replies == IF up THEN {"reply", "error"} ELSE {"error"}

\* A bug: the entry is written without its TTL.
StoredForever(version, ttl) ==
  [held |-> TRUE, version |-> version, expires |-> FALSE, usable |-> TRUE]

\* setex with a TTL, set without.
Stored(version, ttl) ==
  [held |-> TRUE, version |-> version, expires |-> ttl > 0, usable |-> TRUE]

\* set: nothing happens when Redis cannot be reached; an error is swallowed.
set(version, ttl) == entry' = IF up THEN Stored(version, ttl) ELSE entry

\* A bug: an error is taken for success.
LockOptimistic(replied, applied) == applied \/ ~replied

\* set_nx tells true only if Redis said so.
LockAcquired(replied, applied) == applied /\ replied

\* A client that is told true again holds the new lease.
set_nx(c) ==
  /\ is_initialized
  /\ lock' = IF up /\ lock = Free THEN c ELSE lock
  /\ \E r \in Replies :
       IF LockAcquired(r = "reply", lock = Free)
       THEN holders' = holders \cup {c} /\ lost' = lost \ {c}
       ELSE UNCHANGED leases
  /\ UNCHANGED <<manager, up, entry, counter, source, writer, clientVars, counted>>

\* A bug: an error is answered with a default.
SwallowsError(reply) == 1

\* incr returns what Redis replied, and throws an error on.
Returns(reply) == IF reply THEN 1 ELSE 0

\* decr is the same with the other sign.
incr ==
  /\ is_initialized /\ counter < MaxCount
  /\ counter' = IF up THEN counter + 1 ELSE counter
  /\ \E r \in Replies : counted' = counted + Returns(r = "reply")
  /\ UNCHANGED <<manager, up, entry, lock, source, writer, clientVars, leases>>

\* expire(key, seconds) on the entry.
expire ==
  /\ is_initialized /\ up /\ entry.held
  /\ entry' = [entry EXCEPT !.expires = TRUE]
  /\ UNCHANGED <<manager, up, lock, counter, source, writer, clientVars, leases, counted>>
-----------------------------------------------------------------------------
(* cached()                                                                *)

Enter(c) ==
  /\ pc[c] = "idle" /\ pc' = [pc EXCEPT ![c] = IF is_initialized THEN "get" ELSE "load"]
  /\ UNCHANGED <<manager, up, redisVars, source, writer, value, leases, counted>>

\* A usable hit is returned.  A miss, an error, an entry that cannot be parsed
\* and a manager that is gone all lead to the loader.
Get(c) ==
  /\ pc[c] = "get"
  /\ \E r \in Replies :
       pc' = [pc EXCEPT ![c] = IF /\ is_initialized /\ r = "reply"
                                  /\ entry.held /\ entry.usable
                               THEN "idle" ELSE "load"]
  /\ UNCHANGED <<manager, up, redisVars, source, writer, value, leases, counted>>

Load(c) ==
  /\ pc[c] = "load" /\ pc' = [pc EXCEPT ![c] = "loaded"]
  /\ value' = [value EXCEPT ![c] = source]
  /\ UNCHANGED <<manager, up, redisVars, source, writer, leases, counted>>

LoaderThrows(c) ==
  /\ pc[c] = "load" /\ pc' = [pc EXCEPT ![c] = "idle"]
  /\ UNCHANGED <<manager, up, redisVars, source, writer, value, leases, counted>>

\* Whatever becomes of the write, the loaded value is returned.
Store(c) ==
  /\ pc[c] = "loaded" /\ pc' = [pc EXCEPT ![c] = "idle"]
  /\ value' = [value EXCEPT ![c] = 0]
  /\ IF is_initialized THEN set(value[c], ttl_sec) ELSE UNCHANGED entry
  /\ UNCHANGED <<manager, up, lock, counter, source, writer, leases, counted>>
-----------------------------------------------------------------------------
(* The writer of the source, other releases, and Redis.                    *)

Update ==
  /\ writer = "idle" /\ source < MaxVersion
  /\ source' = source + 1 /\ writer' = "invalidate"
  /\ UNCHANGED <<manager, up, redisVars, clientVars, leases, counted>>

\* del: 0 for a key that is absent and for an error.
Invalidate ==
  /\ writer = "invalidate" /\ writer' = "idle"
  /\ entry' = IF is_initialized /\ up THEN Absent ELSE entry
  /\ UNCHANGED <<manager, up, lock, counter, source, clientVars, leases, counted>>

\* A replica of another release stores a value of another shape.
OtherShape ==
  /\ up /\ entry' = [Stored(0, ttl_sec) EXCEPT !.usable = FALSE]
  /\ UNCHANGED <<manager, up, lock, counter, source, writer, clientVars, leases, counted>>

EntryExpires ==
  /\ entry.expires /\ entry' = Absent
  /\ UNCHANGED <<manager, up, lock, counter, source, writer, clientVars, leases, counted>>

\* The lease of set_nx ends with its TTL, for Redis and for the client; one
\* whose key is lost ends for the client only.
LockExpires ==
  /\ lock # Free /\ lock' = Free
  /\ holders' = holders \ ({lock} \ lost)
  /\ UNCHANGED <<manager, up, entry, counter, source, writer, clientVars, lost, counted>>

LostLeaseEnds(c) ==
  /\ c \in lost
  /\ holders' = holders \ {c} /\ lost' = lost \ {c}
  /\ UNCHANGED <<manager, up, redisVars, source, writer, clientVars, counted>>

RedisFails ==
  /\ up /\ up' = FALSE
  /\ UNCHANGED <<manager, redisVars, source, writer, clientVars, leases, counted>>

\* With its data, or without: the clients keep what they were told.
RedisReturns(empty) ==
  /\ ~up /\ up' = TRUE
  /\ IF empty
     THEN /\ entry' = Absent /\ lock' = Free /\ counter' = 0
          /\ lost' = holders /\ counted' = 0
     ELSE UNCHANGED <<redisVars, lost, counted>>
  /\ UNCHANGED <<manager, source, writer, clientVars, holders>>

Next ==
  \/ Initialize \/ Shutdown
  \/ \E c \in Clients : \/ Enter(c) \/ Get(c) \/ Load(c) \/ LoaderThrows(c) \/ Store(c)
                        \/ set_nx(c) \/ LostLeaseEnds(c)
  \/ incr \/ expire \/ Update \/ Invalidate \/ OtherShape
  \/ EntryExpires \/ LockExpires \/ RedisFails
  \/ \E empty \in BOOLEAN : RedisReturns(empty)

\* Time passes: an entry with a TTL goes.
Fairness == WF_vars(EntryExpires)

Spec == Init /\ [][Next]_vars /\ Fairness
-----------------------------------------------------------------------------
\* Once the source no longer changes, every readable entry is soon current
\* and stays so, although a slow loader may store an old version after the
\* invalidation, or the invalidation may be lost: cached() always stores with
\* a TTL, so that nothing old outlives it.
EventuallyFresh ==
  <>[](entry.held /\ entry.usable => entry.version = source)

\* set_nx is a lock: until its lease ends a caller that was told true is the one
\* that set the key, so that it is alone, and neither an outage nor a lost reply
\* lets another in.  The exception are the callers whose key Redis has lost: a
\* Redis that returns empty grants the key again during their leases.
LockHeldOnce == holders \ lost \subseteq {lock} \ {Free}

\* Until Redis loses its data, every call of incr that returned is in the
\* counter: an error is never turned into a number.
NoCountLost == counted <= counter
=============================================================================
