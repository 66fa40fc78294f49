-------------------------- MODULE InboundMessages --------------------------
(***************************************************************************)
(* The WhatsApp webhook of app/api/v1/endpoints/whatsapp_webhook.py with   *)
(* the two things it must not get wrong: a message is dispatched once      *)
(* (app/services/idempotency.py), and a customer who opts out is not       *)
(* contacted again (app/services/phone_suppression_service.py).            *)
(*                                                                         *)
(* A request carries a batch of messages to one server process.  Each of   *)
(* its calls to Redis and to PostgreSQL is a step; what runs between two   *)
(* awaits is one step.  A call to a faulty store may fail, and a call that *)
(* failed may have been carried out.                                       *)
(***************************************************************************)
EXTENDS Naturals, Sequences

CONSTANTS
    Servers,        \* the processes that run the webhook
    Requests,       \* slots for HTTP requests in flight
    ServerOf,       \* [Requests -> Servers]
    Messages,       \* message ids (wamid)
    OptOuts,        \* those that say STOP, each from a customer of its own
    Scenarios       \* pairs of the kinds of faults and the payload of a behaviour

(* Redis calls fail and Redis loses data, PostgreSQL calls fail, processes *)
(* die.                                                                    *)
Faults == {"redis", "db", "crash"}

ASSUME InboundAssumption ==
    /\ ServerOf \in [Requests -> Servers]
    /\ OptOuts \subseteq Messages
    /\ "redis" \notin Servers /\ "db" \notin Servers
    /\ Scenarios \subseteq (SUBSET Faults) \X (Seq(Messages) \ {<<>>})

VARIABLES
    faults,         \* what may go wrong in this behaviour; never changes
    batch,          \* the payload that is delivered in it; never changes
    fastlock,       \* keys whatsapp:fastlock:* in Redis
    wamidKeys,      \* keys whatsapp:wamid:* in Redis
    memWamids,      \* [Servers -> SUBSET OptOuts]: _in_memory_cache
    memEvents,      \* [Servers -> SUBSET Messages]: _in_memory_durable_events
    rows,           \* rows of inbound_webhook_events
    suppressedIn,   \* [Stores -> SUBSET OptOuts]: customers marked as opted out
    stage,          \* [Requests -> Stages]
    left,           \* [Requests -> Seq(Messages)]: what the loops have yet to see
    queued,         \* [Requests -> SUBSET Messages]: background_tasks of the request
    tasks,          \* [Servers -> SUBSET Messages]: background tasks after the answer
    dispatches,     \* history: [Messages -> 0..2], 2 stands for more than one
    byMemory,       \* history: messages taken as new on the word of one process
    acked,          \* history: opt-outs answered with 200
    confirmed,      \* history: opt-outs answered with opt_out_confirmed
    contacted       \* history: customers contacted after that answer

storeVars   == <<fastlock, wamidKeys, rows, suppressedIn>>
memoryVars  == <<memWamids, memEvents>>
requestVars == <<stage, left, queued>>
notes       == <<acked, confirmed, contacted>>
inboundVars == <<faults, batch, storeVars, memoryVars, requestVars, tasks, dispatches,
                 byMemory, notes>>

Stores == Servers \cup {"redis", "db"}
Stages == {"idle", "dup", "suppress", "undo", "fast", "sql", "psycopg", "memory", "answer"}

InboundTypeOK ==
    /\ faults \subseteq Faults
    /\ batch \in Seq(Messages) \ {<<>>}
    /\ fastlock \subseteq Messages
    /\ wamidKeys \subseteq OptOuts
    /\ memWamids \in [Servers -> SUBSET OptOuts]
    /\ memEvents \in [Servers -> SUBSET Messages]
    /\ rows \subseteq Messages
    /\ suppressedIn \in [Stores -> SUBSET OptOuts]
    /\ stage \in [Requests -> Stages]
    /\ left \in [Requests -> Seq(Messages)]
    /\ queued \in [Requests -> SUBSET Messages]
    /\ tasks \in [Servers -> SUBSET Messages]
    /\ dispatches \in [Messages -> 0..2]
    /\ byMemory \subseteq Messages
    /\ acked \subseteq OptOuts
    /\ confirmed \subseteq OptOuts
    /\ contacted \subseteq OptOuts

InboundInit ==
    /\ \E x \in Scenarios : faults = x[1] /\ batch = x[2]
    /\ fastlock = {} /\ wamidKeys = {} /\ rows = {}
    /\ memWamids = [s \in Servers |-> {}]
    /\ memEvents = [s \in Servers |-> {}]
    /\ suppressedIn = [x \in Stores |-> {}]
    /\ stage = [r \in Requests |-> "idle"]
    /\ left = [r \in Requests |-> <<>>]
    /\ queued = [r \in Requests |-> {}]
    /\ tasks = [s \in Servers |-> {}]
    /\ dispatches = [m \in Messages |-> 0]
    /\ byMemory = {} /\ acked = {} /\ confirmed = {} /\ contacted = {}

-----------------------------------------------------------------------------
(* Moving a request                                                        *)

Message(r) == Head(left[r])

(* The first thing the loop does with the next message of a payload.       *)
StageOf(messages) ==
    IF messages = <<>> THEN "answer"
    ELSE IF Head(messages) \in OptOuts THEN "dup" ELSE "fast"

GoTo(r, to) ==
    /\ stage' = [stage EXCEPT ![r] = to]
    /\ UNCHANGED <<left, queued>>

(* record_inbound_event returns.  For a message like any other the loop    *)
(* queues the dispatch if it is new and goes on; after an opt-out, whose   *)
(* result is ignored, the request ends.                                    *)
Recorded(r, new) ==
    /\ IF Message(r) \in OptOuts
         THEN /\ stage' = [stage EXCEPT ![r] = "answer"]
              /\ UNCHANGED <<left, queued>>
         ELSE /\ stage' = [stage EXCEPT ![r] = StageOf(Tail(left[r]))]
              /\ left' = [left EXCEPT ![r] = Tail(@)]
              /\ queued' = [queued EXCEPT ![r] = IF new THEN @ \cup {Message(r)} ELSE @]

(* The request is over; its background tasks run after the response.       *)
Respond(r) ==
    /\ stage' = [stage EXCEPT ![r] = "idle"]
    /\ left' = [left EXCEPT ![r] = <<>>]
    /\ tasks' = [tasks EXCEPT ![ServerOf[r]] = @ \cup queued[r]]
    /\ queued' = [queued EXCEPT ![r] = {}]

-----------------------------------------------------------------------------
(* The payload arrives, for the first time or again, or while an earlier   *)
(* delivery of it is still worked on.                                      *)
Deliver(r) ==
    /\ stage[r] = "idle"
    /\ stage' = [stage EXCEPT ![r] = StageOf(batch)]
    /\ left' = [left EXCEPT ![r] = batch]
    /\ UNCHANGED <<faults, batch, storeVars, memoryVars, queued, tasks, dispatches, byMemory, notes>>

(* Mutant: a Redis that fails is taken for a lock that is held.            *)
FastLockFailsClosed(r) ==
    /\ stage[r] = "fast"
    /\ \/ /\ Message(r) \notin fastlock
          /\ fastlock' = fastlock \cup {Message(r)}
          /\ GoTo(r, "sql")
       \/ /\ Message(r) \in fastlock \/ "redis" \in faults
          /\ Recorded(r, FALSE)
          /\ UNCHANGED fastlock
    /\ UNCHANGED <<faults, batch, wamidKeys, rows, suppressedIn, memoryVars, tasks, dispatches, byMemory, notes>>

(* The fast lock: SET NX.  Only an answer "held" makes it a duplicate; a   *)
(* Redis that fails, with or without having set the key, stops nothing.    *)
FastLock(r) ==
    /\ stage[r] = "fast"
    /\ \/ /\ Message(r) \notin fastlock
          /\ fastlock' = fastlock \cup {Message(r)}
          /\ GoTo(r, "sql")
       \/ /\ Message(r) \in fastlock
          /\ Recorded(r, FALSE)
          /\ UNCHANGED fastlock
       \/ /\ "redis" \in faults
          /\ fastlock' \in {fastlock, fastlock \cup {Message(r)}}
          /\ GoTo(r, "sql")
    /\ UNCHANGED <<faults, batch, wamidKeys, rows, suppressedIn, memoryVars, tasks, dispatches, byMemory, notes>>

(* Mutant: a conflict is an update that returns the row's id as well.      *)
InsertOrUpdate(r, otherwise) ==
    /\ \/ /\ rows' = rows \cup {Message(r)}
          /\ Recorded(r, TRUE)
       \/ /\ "db" \in faults
          /\ rows' \in {rows, rows \cup {Message(r)}}
          /\ GoTo(r, otherwise)
    /\ UNCHANGED <<faults, batch, fastlock, wamidKeys, suppressedIn, memoryVars, tasks, dispatches, byMemory, notes>>

(* INSERT ... ON CONFLICT DO NOTHING; any error falls through to the next  *)
(* way of recording the event, although the row may have been committed.   *)
Insert(r, otherwise) ==
    /\ \/ /\ rows' = rows \cup {Message(r)}
          /\ Recorded(r, Message(r) \notin rows)
       \/ /\ "db" \in faults
          /\ rows' \in {rows, rows \cup {Message(r)}}
          /\ GoTo(r, otherwise)
    /\ UNCHANGED <<faults, batch, fastlock, wamidKeys, suppressedIn, memoryVars, tasks, dispatches, byMemory, notes>>

InsertSqlAlchemy(r) == stage[r] = "sql" /\ Insert(r, "psycopg")

InsertPsycopg(r) == stage[r] = "psycopg" /\ Insert(r, "memory")

(* Mutant: the key goes into the other set of the process.                 *)
InsertWrongSet(r) ==
    /\ stage[r] = "memory"
    /\ Recorded(r, Message(r) \notin memEvents[ServerOf[r]])
    /\ memWamids' = [memWamids EXCEPT ![ServerOf[r]] = @ \cup {Message(r)}]
    /\ UNCHANGED <<faults, batch, storeVars, memEvents, tasks, dispatches, byMemory, notes>>

(* Neither way worked: the set of this process decides.                    *)
InsertMemory(r) ==
    /\ stage[r] = "memory"
    /\ LET known == memEvents[ServerOf[r]] IN
       /\ Recorded(r, Message(r) \notin known)
       /\ memEvents' = [memEvents EXCEPT ![ServerOf[r]] = @ \cup {Message(r)}]
       /\ byMemory' = IF Message(r) \in known THEN byMemory ELSE byMemory \cup {Message(r)}
    /\ UNCHANGED <<faults, batch, storeVars, memWamids, tasks, dispatches, notes>>

(* An opt-out: is_duplicate decides first, on a key of its own.            *)
AskDuplicate(r) ==
    /\ stage[r] = "dup"
    /\ LET m == Message(r) IN
       \/ /\ m \notin wamidKeys
          /\ wamidKeys' = wamidKeys \cup {m}
          /\ GoTo(r, "suppress")
          /\ UNCHANGED <<memWamids, acked, tasks>>
       \/ /\ m \in wamidKeys
          /\ Respond(r)
          /\ acked' = acked \cup {m}
          /\ UNCHANGED <<wamidKeys, memWamids>>
       \/ /\ "redis" \in faults
          /\ wamidKeys' \in {wamidKeys, wamidKeys \cup {m}}
          /\ memWamids' = [memWamids EXCEPT ![ServerOf[r]] = @ \cup {m}]
          /\ IF m \in memWamids[ServerOf[r]]
               THEN Respond(r) /\ acked' = acked \cup {m}
               ELSE GoTo(r, "suppress") /\ UNCHANGED <<acked, tasks>>
    /\ UNCHANGED <<faults, batch, fastlock, rows, suppressedIn, memEvents, dispatches, byMemory, confirmed, contacted>>

(* Mutant: one attempt at PostgreSQL, whatever comes of it.                *)
SuppressOnce(r) ==
    /\ stage[r] = "suppress"
    /\ \/ suppressedIn' = [suppressedIn EXCEPT !["db"] = @ \cup {Message(r)}]
       \/ "db" \in faults /\ UNCHANGED suppressedIn
    /\ GoTo(r, "fast")
    /\ UNCHANGED <<faults, batch, fastlock, wamidKeys, rows, memoryVars, tasks, dispatches, byMemory, notes>>

(* record_durable_suppression: PostgreSQL, then the sets in Redis, and the *)
(* set of the process when one of them took it.  One synchronous call.     *)
Suppress(r) ==
    /\ stage[r] = "suppress"
    /\ \E ok \in SUBSET {"redis", "db"}, done \in SUBSET {"redis", "db"} :
          /\ ok \subseteq done
          /\ {"redis", "db"} \ faults \subseteq ok
          /\ LET marked == IF ok = {} THEN done ELSE done \cup {ServerOf[r]} IN
             suppressedIn' = [x \in Stores |->
                 IF x \in marked THEN suppressedIn[x] \cup {Message(r)} ELSE suppressedIn[x]]
          /\ GoTo(r, IF ok = {} THEN "undo" ELSE "fast")
    /\ UNCHANGED <<faults, batch, fastlock, wamidKeys, rows, memoryVars, tasks, dispatches, byMemory, notes>>

(* Nothing took it: give the key of is_duplicate back and answer 503, so   *)
(* that the provider delivers the message again.  An error of Redis is     *)
(* swallowed and leaves its key where it is.                               *)
Undo(r) ==
    /\ stage[r] = "undo"
    /\ wamidKeys' \in {wamidKeys \ {Message(r)}}
                        \cup (IF "redis" \in faults THEN {wamidKeys} ELSE {})
    /\ memWamids' = [memWamids EXCEPT ![ServerOf[r]] = @ \ {Message(r)}]
    /\ Respond(r)
    /\ UNCHANGED <<faults, batch, fastlock, rows, suppressedIn, memEvents, dispatches, byMemory, notes>>

(* HTTP 200.  If an opt-out ended the request, what stood behind it in the *)
(* payload is never looked at.                                             *)
Answer(r) ==
    /\ stage[r] = "answer"
    /\ Respond(r)
    /\ LET optOut == {m \in OptOuts : left[r] # <<>> /\ m = Message(r)} IN
       /\ acked' = acked \cup optOut
       /\ confirmed' = confirmed \cup optOut
    /\ UNCHANGED <<faults, batch, storeVars, memoryVars, dispatches, byMemory, contacted>>

(* A background task hands a message to the traffic splitter.              *)
Dispatch(s, m) ==
    /\ m \in tasks[s]
    /\ tasks' = [tasks EXCEPT ![s] = @ \ {m}]
    /\ dispatches' = [dispatches EXCEPT ![m] = IF @ = 0 THEN 1 ELSE 2]
    /\ UNCHANGED <<faults, batch, storeVars, memoryVars, requestVars, byMemory, notes>>

(* Mutant: the caches are believed.                                        *)
FindsInCache(s, m, heard) == \E x \in (heard \cap {"redis"}) \cup {s} : m \in suppressedIn[x]

(* is_phone_suppressed: the process, then Redis, then PostgreSQL; a store  *)
(* that fails is taken to know nothing.                                    *)
Finds(s, m, heard) == \E x \in heard \cup {s} : m \in suppressedIn[x]

(* Somebody wants to write to the customer who sent m.  What only          *)
(* PostgreSQL knew is copied to Redis.                                     *)
Contact(s, m) ==
    \E heard \in SUBSET {"redis", "db"} :
       /\ {"redis", "db"} \ faults \subseteq heard
       /\ \/ /\ Finds(s, m, heard) /\ ~Finds(s, m, heard \ {"db"})
             /\ suppressedIn' = [suppressedIn EXCEPT !["redis"] = @ \cup {m}]
          \/ /\ Finds(s, m, heard) => Finds(s, m, heard \ {"db"}) \/ "redis" \in faults
             /\ UNCHANGED suppressedIn
       /\ contacted' = IF m \in confirmed /\ ~Finds(s, m, heard)
                         THEN contacted \cup {m} ELSE contacted
    /\ UNCHANGED <<faults, batch, fastlock, wamidKeys, rows, memoryVars, requestVars, tasks,
                   dispatches, byMemory, acked, confirmed>>

-----------------------------------------------------------------------------
(* Keys end after 24 hours, long after the requests that set them.         *)
KeysExpire ==
    /\ \A r \in Requests : stage[r] = "idle"
    /\ fastlock' = {} /\ wamidKeys' = {}
    /\ memWamids' = [s \in Servers |-> {}]
    /\ UNCHANGED <<faults, batch, rows, suppressedIn, memEvents, requestVars, tasks, dispatches, byMemory, notes>>

(* Redis restarts without its data.                                        *)
RedisLosesData ==
    /\ "redis" \in faults
    /\ fastlock' = {} /\ wamidKeys' = {}
    /\ suppressedIn' = [suppressedIn EXCEPT !["redis"] = {}]
    /\ UNCHANGED <<faults, batch, rows, memoryVars, requestVars, tasks, dispatches, byMemory, notes>>

(* A process dies with its memory, its requests and its background tasks.  *)
ServerCrashes(s) ==
    /\ "crash" \in faults
    /\ memWamids' = [memWamids EXCEPT ![s] = {}]
    /\ memEvents' = [memEvents EXCEPT ![s] = {}]
    /\ suppressedIn' = [suppressedIn EXCEPT ![s] = {}]
    /\ tasks' = [tasks EXCEPT ![s] = {}]
    /\ LET dies(r) == ServerOf[r] = s IN
       /\ stage' = [r \in Requests |-> IF dies(r) THEN "idle" ELSE stage[r]]
       /\ left' = [r \in Requests |-> IF dies(r) THEN <<>> ELSE left[r]]
       /\ queued' = [r \in Requests |-> IF dies(r) THEN {} ELSE queued[r]]
    /\ UNCHANGED <<faults, batch, fastlock, wamidKeys, rows, dispatches, byMemory, notes>>

RequestStep(r) ==
    \/ FastLock(r) \/ InsertSqlAlchemy(r) \/ InsertPsycopg(r) \/ InsertMemory(r)
    \/ AskDuplicate(r) \/ Suppress(r) \/ Undo(r) \/ Answer(r)

InboundNext ==
    \/ \E r \in Requests : Deliver(r)
    \/ \E r \in Requests : RequestStep(r)
    \/ \E s \in Servers, m \in Messages : Dispatch(s, m)
    \/ \E s \in Servers, m \in OptOuts : Contact(s, m)
    \/ \E s \in Servers : ServerCrashes(s)
    \/ KeysExpire
    \/ RedisLosesData

InboundSpec == InboundInit /\ [][InboundNext]_inboundVars

(* The event loop runs every request and every background task to its end. *)
InboundFairness ==
    /\ \A r \in Requests : WF_inboundVars(RequestStep(r))
    /\ \A s \in Servers, m \in Messages : WF_inboundVars(Dispatch(s, m))

FairInboundSpec == InboundSpec /\ InboundFairness

-----------------------------------------------------------------------------
(* What the webhook must get right                                         *)

(* "Durable idempotency": a message is handed to the traffic splitter      *)
(* twice only if PostgreSQL failed and the memory of a process decided     *)
(* that it was new.  The fast lock may be lost or lie, deliveries may run  *)
(* beside each other, processes may die.                                   *)
DispatchedTwiceOnlyByMemory ==
    \A m \in Messages : dispatches[m] > 1 => m \in byMemory

(* An opt-out that is answered with 200 is in PostgreSQL or in Redis, or a *)
(* request is about to put it there, as long as one of the two stores      *)
(* works and no process dies.  The duplicate check answers before anything *)
(* is stored, so both conditions are needed.                               *)
AcknowledgedOptOutIsKept ==
    "crash" \notin faults /\ ~({"redis", "db"} \subseteq faults) =>
        \A m \in acked :
            \/ \E x \in {"redis", "db"} : m \in suppressedIn[x]
            \/ \E r \in Requests : stage[r] = "suppress" /\ Message(r) = m

(* Once told that the opt-out is confirmed, a customer is contacted by no  *)
(* process, also one that has never heard of it, also after a crash, as    *)
(* long as one of the two stores works.                                    *)
ConfirmedOptOutIsHonoured == ~({"redis", "db"} \subseteq faults) => contacted = {}

(* What the loops of a request will come to: an opt-out ends them.         *)
Ahead(r) ==
    {left[r][i] : i \in {n \in 1..Len(left[r]) :
        \A k \in 1..n : left[r][k] \notin OptOuts}}

(* "Redis failure NEVER blocks the flow": a message that a request will    *)
(* come to is dispatched in the end, by this request or by the one that    *)
(* made it a duplicate, if PostgreSQL works and no process dies.           *)
EveryMessageIsDispatched ==
    \A r \in Requests, m \in Messages :
        (faults \subseteq {"redis"} /\ m \in Ahead(r)) ~> (dispatches[m] > 0)
=============================================================================
