---------------------------- MODULE PaymentLock ----------------------------
(***************************************************************************)
(* The payment lock of app/core/redis.py for ONE key                       *)
(* lock:payment:webhook:{external_id}.  Keys never interact, so a          *)
(* specification of one order needs one key.                               *)
(*                                                                         *)
(* A worker process asks Redis when its cached client answers, and falls   *)
(* back to a dictionary of its own process when it does not.  Neither      *)
(* entry names its owner: a release deletes whatever entry is there.       *)
(***************************************************************************)
CONSTANTS
    Workers,       \* the server processes that run the webhook endpoints
    LockFaults     \* TRUE: Redis may go down, restart empty, or time out

ASSUME LockFaultsAssumption == LockFaults \in BOOLEAN

VARIABLES
    redisUp,       \* Redis accepts calls
    client,        \* [Workers -> ClientStates]: _redis_client and its throttle
    redisHeld,     \* the key exists in Redis
    memHeld        \* [Workers -> BOOLEAN]: the key in _in_memory_locks, not expired

lockVars == <<redisUp, client, redisHeld, memHeld>>

ClientStates == {"untried", "connected", "throttled"}

LockTypeOK ==
    /\ redisUp \in BOOLEAN
    /\ client \in [Workers -> ClientStates]
    /\ redisHeld \in BOOLEAN
    /\ memHeld \in [Workers -> BOOLEAN]

LockInit ==
    /\ redisUp = TRUE
    /\ client = [w \in Workers |-> "untried"]
    /\ redisHeld = FALSE
    /\ memHeld = [w \in Workers |-> FALSE]

-----------------------------------------------------------------------------
(* get_redis_client: a client that ever connected is cached for good; a    *)
(* failed attempt is not repeated until the throttle of 60 seconds ends.   *)
ClientAfter(w) ==
    IF client[w] # "untried" THEN client[w]
    ELSE IF redisUp THEN "connected" ELSE "throttled"

Reaches(w) == ClientAfter(w) = "connected" /\ redisUp

GetClient(w) == client' = [client EXCEPT ![w] = ClientAfter(w)]

(* acquire_payment_lock, answered by Redis: SET key NX EX ttl.             *)
AcquireRedis(w, got) ==
    /\ Reaches(w)
    /\ got = ~redisHeld
    /\ redisHeld' = TRUE
    /\ UNCHANGED memHeld

(* acquire_payment_lock, answered by the dictionary of the process: there  *)
(* is no client, or the call raised.  A call that raised may have been     *)
(* executed by Redis all the same.                                         *)
AcquireInMemory(w, got) ==
    /\ \/ ~Reaches(w) /\ UNCHANGED redisHeld
       \/ LockFaults /\ Reaches(w) /\ redisHeld' \in {redisHeld, TRUE}
    /\ got = ~memHeld[w]
    /\ memHeld' = [memHeld EXCEPT ![w] = TRUE]

TryLock(w, got) ==
    /\ GetClient(w)
    /\ AcquireRedis(w, got) \/ AcquireInMemory(w, got)
    /\ UNCHANGED redisUp

(* release_payment_lock: DEL in Redis and return, else delete the entry of *)
(* the dictionary.  No owner is compared.                                  *)
ReleaseRedis(w) ==
    /\ Reaches(w)
    /\ redisHeld' = FALSE
    /\ UNCHANGED memHeld

ReleaseInMemory(w) ==
    /\ \/ ~Reaches(w) /\ UNCHANGED redisHeld
       \/ LockFaults /\ Reaches(w) /\ redisHeld' \in {redisHeld, FALSE}
    /\ memHeld' = [memHeld EXCEPT ![w] = FALSE]

Unlock(w) ==
    /\ GetClient(w)
    /\ ReleaseRedis(w) \/ ReleaseInMemory(w)
    /\ UNCHANGED redisUp

-----------------------------------------------------------------------------
(* What happens to the lock while no worker touches it.                    *)

(* The time to live of the entry runs out.                                 *)
ExpireRedis ==
    /\ redisHeld
    /\ redisHeld' = FALSE
    /\ UNCHANGED <<redisUp, client, memHeld>>

ExpireInMemory(w) ==
    /\ memHeld[w]
    /\ memHeld' = [memHeld EXCEPT ![w] = FALSE]
    /\ UNCHANGED <<redisUp, client, redisHeld>>

RedisGoesDown ==
    /\ LockFaults
    /\ redisUp
    /\ redisUp' = FALSE
    /\ UNCHANGED <<client, redisHeld, memHeld>>

(* Redis is back, with its keys or without them.                           *)
RedisComesBack ==
    /\ ~redisUp
    /\ redisUp' = TRUE
    /\ redisHeld' \in {redisHeld, FALSE}
    /\ UNCHANGED <<client, memHeld>>

(* 60 seconds after a failed attempt the next call may try again.          *)
ThrottleEnds(w) ==
    /\ client[w] = "throttled"
    /\ client' = [client EXCEPT ![w] = "untried"]
    /\ UNCHANGED <<redisUp, redisHeld, memHeld>>

(* The memory of a process that dies.                                      *)
ForgetLocal(w) ==
    /\ client' = [client EXCEPT ![w] = "untried"]
    /\ memHeld' = [memHeld EXCEPT ![w] = FALSE]
    /\ UNCHANGED <<redisUp, redisHeld>>
=============================================================================
