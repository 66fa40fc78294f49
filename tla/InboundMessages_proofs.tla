------------------------ MODULE InboundMessages_proofs ------------------------
(***************************************************************************)
(* Proofs about InboundMessages for any number of processes, requests,     *)
(* messages and opt-outs and any payload: the type invariant, that a       *)
(* message is dispatched twice only on the word of a process's memory, and *)
(* that an opt-out that was acknowledged or confirmed is kept.             *)
(***************************************************************************)
EXTENDS InboundMessages, SequenceTheorems, TLAPS

(* A request that works on a message has one, and the stages of an opt-out *)
(* are entered with an opt-out.                                            *)
OptOutStages == {"dup", "suppress", "undo"}
RecordStages == {"fast", "sql", "psycopg", "memory"}

StageInv ==
    \A r \in Requests :
        /\ stage[r] \in OptOutStages \cup RecordStages => left[r] # <<>>
        /\ stage[r] \in OptOutStages => Head(left[r]) \in OptOuts

RequestTypeOK ==
    /\ stage \in [Requests -> Stages]
    /\ left \in [Requests -> Seq(Messages)]
    /\ queued \in [Requests -> SUBSET Messages]

-----------------------------------------------------------------------------
(* Lemmas about the operators the actions are built from                   *)

LEMMA MessageType ==
  ASSUME InboundTypeOK, NEW r \in Requests, left[r] # <<>>
  PROVE  Message(r) \in Messages /\ Tail(left[r]) \in Seq(Messages)
<1>1. left[r] \in Seq(Messages)
  BY DEF InboundTypeOK
<1>2. QED
  BY <1>1, HeadTailProperties DEF Message

LEMMA StageOfType ==
  ASSUME NEW messages \in Seq(Messages)
  PROVE  /\ StageOf(messages) \in {"answer", "dup", "fast"}
         /\ StageOf(messages) # "answer" => messages # <<>>
         /\ StageOf(messages) = "dup" => Head(messages) \in OptOuts
         /\ StageOf(messages) # "dup" /\ messages # <<>> => Head(messages) \notin OptOuts
  BY DEF StageOf

LEMMA GoToStages ==
  ASSUME InboundTypeOK, StageInv, NEW r \in Requests, NEW to \in Stages, GoTo(r, to),
         stage[r] \in OptOutStages \cup RecordStages,
         to \in OptOutStages => stage[r] \in OptOutStages
  PROVE  RequestTypeOK' /\ StageInv'
<1>1. stage' = [stage EXCEPT ![r] = to] /\ left' = left /\ queued' = queued
  BY DEF GoTo
<1>2. RequestTypeOK'
  BY <1>1 DEF RequestTypeOK, InboundTypeOK
<1>3. stage'[r] = to /\ \A q \in Requests \ {r} : stage'[q] = stage[q]
  BY <1>1 DEF InboundTypeOK
<1>4. StageInv'
  BY <1>1, <1>3 DEF StageInv
<1>5. QED
  BY <1>2, <1>4

LEMMA RecordedStages ==
  ASSUME InboundTypeOK, StageInv, NEW r \in Requests, NEW new \in BOOLEAN,
         Recorded(r, new), stage[r] \in RecordStages
  PROVE  RequestTypeOK' /\ StageInv'
<1>1. left[r] # <<>> /\ Message(r) \in Messages /\ Tail(left[r]) \in Seq(Messages)
  BY MessageType DEF StageInv
<1>2. CASE Message(r) \in OptOuts
  <2>1. stage' = [stage EXCEPT ![r] = "answer"] /\ left' = left /\ queued' = queued
    BY <1>2 DEF Recorded
  <2>2. RequestTypeOK'
    BY <2>1 DEF RequestTypeOK, InboundTypeOK, Stages
  <2>3. stage'[r] = "answer" /\ \A q \in Requests \ {r} : stage'[q] = stage[q]
    BY <2>1 DEF InboundTypeOK
  <2>4. StageInv'
    BY <2>1, <2>3 DEF StageInv, OptOutStages, RecordStages
  <2>5. QED
    BY <2>2, <2>4
<1>3. CASE Message(r) \notin OptOuts
  <2>1. /\ stage' = [stage EXCEPT ![r] = StageOf(Tail(left[r]))]
        /\ left' = [left EXCEPT ![r] = Tail(left[r])]
        /\ \E set \in SUBSET Messages : queued' = [queued EXCEPT ![r] = set]
    BY <1>1, <1>3 DEF Recorded, InboundTypeOK
  <2>2. StageOf(Tail(left[r])) \in Stages
    BY <1>1, StageOfType DEF Stages
  <2>3. RequestTypeOK'
    BY <1>1, <2>1, <2>2 DEF RequestTypeOK, InboundTypeOK
  <2>4. /\ stage'[r] = StageOf(Tail(left[r])) /\ left'[r] = Tail(left[r])
        /\ \A q \in Requests \ {r} : stage'[q] = stage[q] /\ left'[q] = left[q]
    BY <2>1 DEF InboundTypeOK
  <2>5. StageInv'
    <3> SUFFICES ASSUME NEW q \in Requests
                 PROVE  /\ stage'[q] \in OptOutStages \cup RecordStages => left'[q] # <<>>
                        /\ stage'[q] \in OptOutStages => Head(left'[q]) \in OptOuts
      BY DEF StageInv
    <3>1. CASE q = r
      BY <1>1, <2>4, <3>1, StageOfType DEF OptOutStages, RecordStages
    <3>2. CASE q # r
      BY <2>4, <3>2 DEF StageInv
    <3>3. QED
      BY <3>1, <3>2
  <2>6. QED
    BY <2>3, <2>5
<1>4. QED
  BY <1>2, <1>3

LEMMA RespondStages ==
  ASSUME InboundTypeOK, StageInv, NEW r \in Requests, Respond(r)
  PROVE  RequestTypeOK' /\ StageInv' /\ tasks' \in [Servers -> SUBSET Messages]
<1>1. /\ stage' = [stage EXCEPT ![r] = "idle"]
      /\ left' = [left EXCEPT ![r] = <<>>]
      /\ queued' = [queued EXCEPT ![r] = {}]
      /\ tasks' = [tasks EXCEPT ![ServerOf[r]] = tasks[ServerOf[r]] \cup queued[r]]
  BY DEF Respond
<1>2. RequestTypeOK'
  BY <1>1 DEF RequestTypeOK, InboundTypeOK, Stages
<1>3. tasks' \in [Servers -> SUBSET Messages]
  BY <1>1, InboundAssumption DEF InboundTypeOK
<1>4. /\ stage'[r] = "idle"
      /\ \A q \in Requests \ {r} : stage'[q] = stage[q] /\ left'[q] = left[q]
  BY <1>1 DEF InboundTypeOK
<1>5. StageInv'
  BY <1>4 DEF StageInv, OptOutStages, RecordStages
<1>6. QED
  BY <1>2, <1>3, <1>5

-----------------------------------------------------------------------------
(* Type correctness                                                        *)

LEMMA InboundTypeInit == InboundInit => InboundTypeOK /\ StageInv
<1> SUFFICES ASSUME InboundInit PROVE InboundTypeOK /\ StageInv
  OBVIOUS
<1>1. faults \subseteq Faults /\ batch \in Seq(Messages) \ {<<>>}
  <2>1. PICK x \in Scenarios : faults = x[1] /\ batch = x[2]
    BY DEF InboundInit
  <2>2. x \in (SUBSET Faults) \X (Seq(Messages) \ {<<>>})
    BY <2>1, InboundAssumption
  <2>3. QED
    BY <2>1, <2>2
<1>2. left \in [Requests -> Seq(Messages)]
  BY DEF InboundInit
<1>3. InboundTypeOK
  BY <1>1, <1>2 DEF InboundInit, InboundTypeOK, Stages
<1>4. StageInv
  BY DEF InboundInit, StageInv, OptOutStages, RecordStages
<1>5. QED
  BY <1>3, <1>4

(* The steps of a request that touch PostgreSQL's rows.                    *)
LEMMA InsertTypes ==
  ASSUME InboundTypeOK, StageInv, NEW r \in Requests, NEW otherwise \in {"psycopg", "memory"},
         stage[r] \in RecordStages, Insert(r, otherwise)
  PROVE  InboundTypeOK' /\ StageInv'
<1>1. Message(r) \in Messages
  BY MessageType DEF StageInv
<1>2. UNCHANGED <<faults, batch, fastlock, wamidKeys, suppressedIn, memWamids, memEvents, tasks,
                  dispatches, byMemory, acked, confirmed, contacted>>
  BY DEF Insert, memoryVars, notes
<1>3. rows' \subseteq Messages
  BY <1>1 DEF Insert, InboundTypeOK
<1>4. RequestTypeOK' /\ StageInv'
  <2>1. CASE Recorded(r, Message(r) \notin rows)
    BY <2>1, RecordedStages
  <2>2. CASE GoTo(r, otherwise)
    BY <2>2, GoToStages DEF Stages, OptOutStages
  <2>3. QED
    BY <2>1, <2>2 DEF Insert
<1>5. QED
  BY <1>2, <1>3, <1>4 DEF InboundTypeOK, RequestTypeOK

LEMMA RequestStepTypes ==
  ASSUME InboundTypeOK, StageInv, NEW r \in Requests, RequestStep(r)
  PROVE  InboundTypeOK' /\ StageInv'
<1> DEFINE s == ServerOf[r]
<1>1. s \in Servers
  BY InboundAssumption
<1>2. ASSUME FastLock(r)
      PROVE  InboundTypeOK' /\ StageInv'
  <2>1. stage[r] = "fast" /\ Message(r) \in Messages
    BY <1>2, MessageType DEF FastLock, StageInv, RecordStages
  <2>2. UNCHANGED <<faults, batch, wamidKeys, rows, suppressedIn, memWamids, memEvents, tasks,
                    dispatches, byMemory, acked, confirmed, contacted>>
    BY <1>2 DEF FastLock, memoryVars, notes
  <2>3. fastlock' \subseteq Messages
    BY <1>2, <2>1 DEF FastLock, InboundTypeOK
  <2>4. RequestTypeOK' /\ StageInv'
    <3>1. CASE GoTo(r, "sql")
      BY <2>1, <3>1, GoToStages DEF Stages, OptOutStages, RecordStages
    <3>2. CASE Recorded(r, FALSE)
      BY <2>1, <3>2, RecordedStages DEF RecordStages
    <3>3. QED
      BY <1>2, <3>1, <3>2 DEF FastLock
  <2>5. QED
    BY <2>2, <2>3, <2>4 DEF InboundTypeOK, RequestTypeOK
<1>3. CASE InsertSqlAlchemy(r)
  BY <1>3, InsertTypes DEF InsertSqlAlchemy, RecordStages
<1>4. CASE InsertPsycopg(r)
  BY <1>4, InsertTypes DEF InsertPsycopg, RecordStages
<1>5. ASSUME InsertMemory(r)
      PROVE  InboundTypeOK' /\ StageInv'
  <2>1. stage[r] = "memory" /\ Message(r) \in Messages
    BY <1>5, MessageType DEF InsertMemory, StageInv, RecordStages
  <2>2. UNCHANGED <<faults, batch, fastlock, wamidKeys, rows, suppressedIn, memWamids, tasks,
                    dispatches, acked, confirmed, contacted>>
    BY <1>5 DEF InsertMemory, storeVars, notes
  <2>3. memEvents' \in [Servers -> SUBSET Messages] /\ byMemory' \subseteq Messages
    BY <1>1, <1>5, <2>1 DEF InsertMemory, InboundTypeOK
  <2>4. RequestTypeOK' /\ StageInv'
    BY <1>5, <2>1, RecordedStages DEF InsertMemory, RecordStages
  <2>5. QED
    BY <2>2, <2>3, <2>4 DEF InboundTypeOK, RequestTypeOK
<1>6. ASSUME AskDuplicate(r)
      PROVE  InboundTypeOK' /\ StageInv'
  <2>1. stage[r] = "dup" /\ Message(r) \in OptOuts
    BY <1>6 DEF AskDuplicate, StageInv, OptOutStages, Message
  <2>2. UNCHANGED <<faults, batch, fastlock, rows, suppressedIn, memEvents, dispatches, byMemory,
                    confirmed, contacted>>
    BY <1>6 DEF AskDuplicate
  <2>3. wamidKeys' \subseteq OptOuts /\ acked' \subseteq OptOuts
    BY <1>6, <2>1 DEF AskDuplicate, InboundTypeOK
  <2>4. memWamids' \in [Servers -> SUBSET OptOuts]
    <3>1. CASE UNCHANGED memWamids
      BY <3>1 DEF InboundTypeOK
    <3>2. CASE memWamids' = [memWamids EXCEPT ![s] = memWamids[s] \cup {Message(r)}]
      BY <1>1, <2>1, <3>2 DEF InboundTypeOK
    <3>3. QED
      BY <1>6, <3>1, <3>2 DEF AskDuplicate
  <2>5. RequestTypeOK' /\ StageInv' /\ tasks' \in [Servers -> SUBSET Messages]
    <3>1. CASE Respond(r)
      BY <3>1, RespondStages
    <3>2. CASE GoTo(r, "suppress") /\ UNCHANGED tasks
      BY <2>1, <3>2, GoToStages DEF Stages, OptOutStages, InboundTypeOK
    <3>3. QED
      BY <1>6, <3>1, <3>2 DEF AskDuplicate
  <2>6. QED
    BY <2>2, <2>3, <2>4, <2>5 DEF InboundTypeOK, RequestTypeOK
<1>7. ASSUME Suppress(r)
      PROVE  InboundTypeOK' /\ StageInv'
  <2>1. stage[r] = "suppress" /\ Message(r) \in OptOuts
    BY <1>7 DEF Suppress, StageInv, OptOutStages, Message
  <2>2. UNCHANGED <<faults, batch, fastlock, wamidKeys, rows, memWamids, memEvents, tasks,
                    dispatches, byMemory, acked, confirmed, contacted>>
    BY <1>7 DEF Suppress, memoryVars, notes
  <2>3. suppressedIn' \in [Stores -> SUBSET OptOuts]
    BY <1>7, <2>1 DEF Suppress, InboundTypeOK
  <2>4. RequestTypeOK' /\ StageInv'
    <3>1. CASE GoTo(r, "undo")
      BY <2>1, <3>1, GoToStages DEF Stages, OptOutStages
    <3>2. CASE GoTo(r, "fast")
      BY <2>1, <3>2, GoToStages DEF Stages, OptOutStages
    <3>3. QED
      BY <1>7, <3>1, <3>2 DEF Suppress
  <2>5. QED
    BY <2>2, <2>3, <2>4 DEF InboundTypeOK, RequestTypeOK
<1>8. ASSUME Undo(r)
      PROVE  InboundTypeOK' /\ StageInv'
  <2>1. UNCHANGED <<faults, batch, fastlock, rows, suppressedIn, memEvents, dispatches, byMemory,
                    acked, confirmed, contacted>>
    BY <1>8 DEF Undo, notes
  <2>2. wamidKeys' \subseteq OptOuts
    BY <1>8 DEF Undo, InboundTypeOK
  <2>3. memWamids' \in [Servers -> SUBSET OptOuts]
    BY <1>1, <1>8 DEF Undo, InboundTypeOK
  <2>4. RequestTypeOK' /\ StageInv' /\ tasks' \in [Servers -> SUBSET Messages]
    BY <1>8, RespondStages DEF Undo
  <2>5. QED
    BY <2>1, <2>2, <2>3, <2>4 DEF InboundTypeOK, RequestTypeOK
<1>9. ASSUME Answer(r)
      PROVE  InboundTypeOK' /\ StageInv'
  <2>1. UNCHANGED <<faults, batch, fastlock, wamidKeys, rows, suppressedIn, memWamids, memEvents,
                    dispatches, byMemory, contacted>>
    BY <1>9 DEF Answer, storeVars, memoryVars
  <2>2. acked' \subseteq OptOuts /\ confirmed' \subseteq OptOuts
    BY <1>9 DEF Answer, InboundTypeOK
  <2>3. RequestTypeOK' /\ StageInv' /\ tasks' \in [Servers -> SUBSET Messages]
    BY <1>9, RespondStages DEF Answer
  <2>4. QED
    BY <2>1, <2>2, <2>3 DEF InboundTypeOK, RequestTypeOK
<1>10. QED
  BY <1>2, <1>3, <1>4, <1>5, <1>6, <1>7, <1>8, <1>9 DEF RequestStep

LEMMA InboundTypeStep ==
  InboundTypeOK /\ StageInv /\ [InboundNext]_inboundVars => InboundTypeOK' /\ StageInv'
<1> SUFFICES ASSUME InboundTypeOK, StageInv, [InboundNext]_inboundVars
             PROVE  InboundTypeOK' /\ StageInv'
  OBVIOUS
<1>1. ASSUME NEW r \in Requests, Deliver(r)
      PROVE  InboundTypeOK' /\ StageInv'
  <2>1. /\ stage' = [stage EXCEPT ![r] = StageOf(batch)]
        /\ left' = [left EXCEPT ![r] = batch]
        /\ UNCHANGED <<faults, batch, fastlock, wamidKeys, rows, suppressedIn, memWamids, memEvents,
                       queued, tasks, dispatches, byMemory, acked, confirmed, contacted>>
    BY <1>1 DEF Deliver, storeVars, memoryVars, notes
  <2>2. batch \in Seq(Messages) /\ StageOf(batch) \in Stages
    BY StageOfType DEF InboundTypeOK, Stages
  <2>3. RequestTypeOK'
    BY <2>1, <2>2 DEF RequestTypeOK, InboundTypeOK
  <2>4. /\ stage'[r] = StageOf(batch) /\ left'[r] = batch
        /\ \A q \in Requests \ {r} : stage'[q] = stage[q] /\ left'[q] = left[q]
    BY <2>1 DEF InboundTypeOK
  <2>5. StageInv'
    <3> SUFFICES ASSUME NEW q \in Requests
                 PROVE  /\ stage'[q] \in OptOutStages \cup RecordStages => left'[q] # <<>>
                        /\ stage'[q] \in OptOutStages => Head(left'[q]) \in OptOuts
      BY DEF StageInv
    <3>1. CASE q = r
      BY <2>2, <2>4, <3>1, StageOfType DEF OptOutStages, RecordStages
    <3>2. CASE q # r
      BY <2>4, <3>2 DEF StageInv
    <3>3. QED
      BY <3>1, <3>2
  <2>6. QED
    BY <2>1, <2>3, <2>5 DEF InboundTypeOK, RequestTypeOK
<1>2. ASSUME NEW r \in Requests, RequestStep(r)
      PROVE  InboundTypeOK' /\ StageInv'
  BY <1>2, RequestStepTypes
<1>3. ASSUME NEW s \in Servers, NEW m \in Messages, Dispatch(s, m)
      PROVE  InboundTypeOK' /\ StageInv'
  <2>1. UNCHANGED <<faults, batch, fastlock, wamidKeys, rows, suppressedIn, memWamids, memEvents,
                    stage, left, queued, byMemory, acked, confirmed, contacted>>
    BY <1>3 DEF Dispatch, storeVars, memoryVars, requestVars, notes
  <2>2. tasks' \in [Servers -> SUBSET Messages] /\ dispatches' \in [Messages -> 0..2]
    BY <1>3 DEF Dispatch, InboundTypeOK
  <2>3. QED
    BY <2>1, <2>2 DEF InboundTypeOK, StageInv
<1>4. ASSUME NEW s \in Servers, NEW m \in OptOuts, Contact(s, m)
      PROVE  InboundTypeOK' /\ StageInv'
  <2>1. UNCHANGED <<faults, batch, fastlock, wamidKeys, rows, memWamids, memEvents, stage, left,
                    queued, tasks, dispatches, byMemory, acked, confirmed>>
    BY <1>4 DEF Contact, memoryVars, requestVars
  <2>2. suppressedIn' \in [Stores -> SUBSET OptOuts]
    BY <1>4 DEF Contact, InboundTypeOK, Stores
  <2>3. contacted' \subseteq OptOuts
    BY <1>4 DEF Contact, InboundTypeOK
  <2>4. QED
    BY <2>1, <2>2, <2>3 DEF InboundTypeOK, StageInv
<1>5. ASSUME NEW s \in Servers, ServerCrashes(s)
      PROVE  InboundTypeOK' /\ StageInv'
  <2>1. UNCHANGED <<faults, batch, fastlock, wamidKeys, rows, dispatches, byMemory, acked,
                    confirmed, contacted>>
    BY <1>5 DEF ServerCrashes, notes
  <2>2. /\ memWamids' \in [Servers -> SUBSET OptOuts]
        /\ memEvents' \in [Servers -> SUBSET Messages]
        /\ suppressedIn' \in [Stores -> SUBSET OptOuts]
        /\ tasks' \in [Servers -> SUBSET Messages]
    BY <1>5 DEF ServerCrashes, InboundTypeOK
  <2>3. /\ stage' = [r \in Requests |-> IF ServerOf[r] = s THEN "idle" ELSE stage[r]]
        /\ left' = [r \in Requests |-> IF ServerOf[r] = s THEN <<>> ELSE left[r]]
        /\ queued' = [r \in Requests |-> IF ServerOf[r] = s THEN {} ELSE queued[r]]
    BY <1>5 DEF ServerCrashes
  <2>4. RequestTypeOK'
    BY <2>3 DEF RequestTypeOK, InboundTypeOK, Stages
  <2>5. StageInv'
    BY <2>3 DEF StageInv, OptOutStages, RecordStages
  <2>6. QED
    BY <2>1, <2>2, <2>4, <2>5 DEF InboundTypeOK, RequestTypeOK
<1>6. CASE KeysExpire
  BY <1>6 DEF KeysExpire, InboundTypeOK, StageInv, requestVars, notes
<1>7. CASE RedisLosesData
  BY <1>7 DEF RedisLosesData, InboundTypeOK, StageInv, memoryVars, requestVars, notes
<1>8. CASE UNCHANGED inboundVars
  BY <1>8 DEF inboundVars, storeVars, memoryVars, requestVars, notes, InboundTypeOK, StageInv
<1>9. QED
  BY <1>1, <1>2, <1>3, <1>4, <1>5, <1>6, <1>7, <1>8 DEF InboundNext

(* Every reachable state of the webhook is of the declared type.           *)
THEOREM InboundTypeCorrect == InboundSpec => []InboundTypeOK
<1>1. InboundInit => InboundTypeOK /\ StageInv
  BY InboundTypeInit
<1>2. InboundTypeOK /\ StageInv /\ [InboundNext]_inboundVars => (InboundTypeOK /\ StageInv)'
  BY InboundTypeStep
<1>3. QED
  BY <1>1, <1>2, PTL DEF InboundSpec

-----------------------------------------------------------------------------
(* Dispatched once: unless a process's memory took it as new, a message    *)
(* that somebody is about to dispatch, or has dispatched, is a row of      *)
(* PostgreSQL, and there is only one of them.                              *)
OneClaim ==
    \A m \in Messages \ byMemory :
        /\ \A r \in Requests : m \in queued[r] =>
              /\ m \in rows /\ dispatches[m] = 0
              /\ \A q \in Requests : m \in queued[q] => q = r
              /\ \A s \in Servers : m \notin tasks[s]
        /\ \A s \in Servers : m \in tasks[s] =>
              /\ m \in rows /\ dispatches[m] = 0
              /\ \A t \in Servers : m \in tasks[t] => t = s
        /\ dispatches[m] > 0 => m \in rows /\ dispatches[m] = 1

LEMMA OneClaimInit == InboundInit => OneClaim
  BY DEF InboundInit, OneClaim

(* Steps that queue nothing.                                               *)
LEMMA NothingQueued ==
  ASSUME InboundTypeOK, OneClaim,
         rows \subseteq rows', byMemory \subseteq byMemory', dispatches' = dispatches,
         \A q \in Requests : queued'[q] \subseteq queued[q],
         \A t \in Servers : tasks'[t] \subseteq tasks[t]
  PROVE  OneClaim'
<1> SUFFICES ASSUME NEW m \in Messages \ byMemory'
             PROVE  /\ \A r \in Requests : m \in queued'[r] =>
                          /\ m \in rows' /\ dispatches'[m] = 0
                          /\ \A q \in Requests : m \in queued'[q] => q = r
                          /\ \A s \in Servers : m \notin tasks'[s]
                    /\ \A s \in Servers : m \in tasks'[s] =>
                          /\ m \in rows' /\ dispatches'[m] = 0
                          /\ \A t \in Servers : m \in tasks'[t] => t = s
                    /\ dispatches'[m] > 0 => m \in rows' /\ dispatches'[m] = 1
  BY DEF OneClaim
<1>1. m \in Messages \ byMemory
  OBVIOUS
<1>2. QED
  BY <1>1 DEF OneClaim

(* Going on, or being told that the message is known.                      *)
LEMMA GoToClaims ==
  ASSUME InboundTypeOK, OneClaim, NEW r \in Requests, NEW to, GoTo(r, to),
         rows \subseteq rows', byMemory \subseteq byMemory', UNCHANGED <<tasks, dispatches>>
  PROVE  OneClaim'
  BY NothingQueued DEF GoTo

LEMMA RecordedClaims ==
  ASSUME InboundTypeOK, OneClaim, NEW r \in Requests, NEW new \in BOOLEAN, Recorded(r, new),
         Message(r) \in Messages,
         rows \subseteq rows', byMemory \subseteq byMemory', UNCHANGED <<tasks, dispatches>>,
         new => \/ Message(r) \in byMemory'
                \/ Message(r) \in rows' \ rows
  PROVE  OneClaim'
<1>1. CASE UNCHANGED queued
  BY <1>1, NothingQueued
<1>2. CASE new /\ queued' = [queued EXCEPT ![r] = queued[r] \cup {Message(r)}]
  <2>1. /\ queued'[r] = queued[r] \cup {Message(r)}
        /\ \A q \in Requests \ {r} : queued'[q] = queued[q]
    BY <1>2 DEF InboundTypeOK
  <2> SUFFICES ASSUME NEW m \in Messages \ byMemory'
               PROVE  /\ \A q \in Requests : m \in queued'[q] =>
                            /\ m \in rows' /\ dispatches'[m] = 0
                            /\ \A x \in Requests : m \in queued'[x] => x = q
                            /\ \A s \in Servers : m \notin tasks'[s]
                      /\ \A s \in Servers : m \in tasks'[s] =>
                            /\ m \in rows' /\ dispatches'[m] = 0
                            /\ \A t \in Servers : m \in tasks'[t] => t = s
                      /\ dispatches'[m] > 0 => m \in rows' /\ dispatches'[m] = 1
    BY DEF OneClaim
  <2>2. m \in Messages \ byMemory
    OBVIOUS
  <2>3. CASE m = Message(r)
    <3>1. m \in rows' /\ m \notin rows
      BY <1>2, <2>3
    <3>2. dispatches[m] = 0 /\ \A q \in Requests : m \notin queued[q]
      BY <2>2, <3>1 DEF OneClaim, InboundTypeOK
    <3>3. \A s \in Servers : m \notin tasks[s]
      BY <2>2, <3>1 DEF OneClaim
    <3>4. QED
      BY <2>1, <3>1, <3>2, <3>3
  <2>4. CASE m # Message(r)
    <3>1. \A q \in Requests : m \in queued'[q] <=> m \in queued[q]
      BY <2>1, <2>4
    <3>2. QED
      BY <2>2, <3>1 DEF OneClaim
  <2>5. QED
    BY <2>3, <2>4
<1>3. CASE ~new /\ queued' = [queued EXCEPT ![r] = queued[r]]
  <2>1. \A q \in Requests : queued'[q] \subseteq queued[q]
    BY <1>3 DEF InboundTypeOK
  <2>2. QED
    BY <2>1, NothingQueued
<1>4. QED
  BY <1>1, <1>2, <1>3 DEF Recorded

(* The claims of a request become those of its process.                    *)
LEMMA RespondClaims ==
  ASSUME InboundTypeOK, OneClaim, NEW r \in Requests, Respond(r),
         UNCHANGED <<rows, byMemory, dispatches>>
  PROVE  OneClaim'
<1> DEFINE s == ServerOf[r]
<1>1. s \in Servers
  BY InboundAssumption
<1>2. queued' = [queued EXCEPT ![r] = {}] /\ tasks' = [tasks EXCEPT ![s] = tasks[s] \cup queued[r]]
  BY DEF Respond
<1>3. /\ queued'[r] = {} /\ \A q \in Requests \ {r} : queued'[q] = queued[q]
      /\ tasks'[s] = tasks[s] \cup queued[r] /\ \A t \in Servers \ {s} : tasks'[t] = tasks[t]
  BY <1>1, <1>2 DEF InboundTypeOK
<1> HIDE DEF s
<1> SUFFICES ASSUME NEW m \in Messages \ byMemory'
             PROVE  /\ \A q \in Requests : m \in queued'[q] =>
                          /\ m \in rows' /\ dispatches'[m] = 0
                          /\ \A x \in Requests : m \in queued'[x] => x = q
                          /\ \A t \in Servers : m \notin tasks'[t]
                    /\ \A t \in Servers : m \in tasks'[t] =>
                          /\ m \in rows' /\ dispatches'[m] = 0
                          /\ \A u \in Servers : m \in tasks'[u] => u = t
                    /\ dispatches'[m] > 0 => m \in rows' /\ dispatches'[m] = 1
  BY DEF OneClaim
<1>4. CASE m \in queued[r]
  <2>1. /\ m \in rows /\ dispatches[m] = 0
        /\ \A q \in Requests : m \in queued[q] => q = r
        /\ \A t \in Servers : m \notin tasks[t]
    BY <1>4 DEF OneClaim
  <2>2. \A q \in Requests : m \notin queued'[q]
    BY <1>3, <2>1
  <2>3. \A t \in Servers : m \in tasks'[t] => t = s
    BY <1>3, <2>1
  <2>4. QED
    BY <2>1, <2>2, <2>3
<1>5. CASE m \notin queued[r]
  <2>1. \A q \in Requests : m \in queued'[q] <=> m \in queued[q]
    BY <1>3, <1>5
  <2>2. \A t \in Servers : m \in tasks'[t] <=> m \in tasks[t]
    BY <1>3, <1>5
  <2>3. QED
    BY <2>1, <2>2 DEF OneClaim
<1>6. QED
  BY <1>4, <1>5

LEMMA OneClaimStep ==
  InboundTypeOK /\ StageInv /\ OneClaim /\ [InboundNext]_inboundVars => OneClaim'
<1> SUFFICES ASSUME InboundTypeOK, StageInv, OneClaim, [InboundNext]_inboundVars
             PROVE  OneClaim'
  OBVIOUS
<1>1. ASSUME NEW r \in Requests, Deliver(r)
      PROVE  OneClaim'
  BY <1>1, NothingQueued DEF Deliver, storeVars
<1>2. ASSUME NEW r \in Requests, FastLock(r)
      PROVE  OneClaim'
  <2>1. UNCHANGED <<rows, byMemory, tasks, dispatches>>
    BY <1>2 DEF FastLock
  <2>2. Message(r) \in Messages
    BY <1>2, MessageType DEF FastLock, StageInv, RecordStages
  <2>3. CASE GoTo(r, "sql")
    BY <2>1, <2>3, GoToClaims
  <2>4. CASE Recorded(r, FALSE)
    BY <2>1, <2>2, <2>4, RecordedClaims
  <2>5. QED
    BY <1>2, <2>3, <2>4 DEF FastLock
<1>3. ASSUME NEW r \in Requests, NEW otherwise, stage[r] \in RecordStages, Insert(r, otherwise)
      PROVE  OneClaim'
  <2>1. UNCHANGED <<byMemory, tasks, dispatches>> /\ rows \subseteq rows'
    BY <1>3 DEF Insert
  <2>2. Message(r) \in Messages
    BY <1>3, MessageType DEF StageInv
  <2>3. CASE GoTo(r, otherwise)
    BY <2>1, <2>3, GoToClaims
  <2>4. CASE rows' = rows \cup {Message(r)} /\ Recorded(r, Message(r) \notin rows)
    BY <2>1, <2>2, <2>4, RecordedClaims
  <2>5. QED
    BY <1>3, <2>3, <2>4 DEF Insert
<1>4. ASSUME NEW r \in Requests, InsertMemory(r)
      PROVE  OneClaim'
  <2>1. UNCHANGED <<rows, tasks, dispatches>> /\ byMemory \subseteq byMemory'
    BY <1>4 DEF InsertMemory, storeVars
  <2>2. Message(r) \in Messages
    BY <1>4, MessageType DEF InsertMemory, StageInv, RecordStages
  <2>3. PICK new \in BOOLEAN : Recorded(r, new) /\ (new => Message(r) \in byMemory')
    BY <1>4 DEF InsertMemory
  <2>4. QED
    BY <2>1, <2>2, <2>3, RecordedClaims
<1>5. ASSUME NEW r \in Requests, AskDuplicate(r)
      PROVE  OneClaim'
  <2>1. UNCHANGED <<rows, byMemory, dispatches>>
    BY <1>5 DEF AskDuplicate
  <2>2. CASE Respond(r)
    BY <2>1, <2>2, RespondClaims
  <2>3. CASE GoTo(r, "suppress") /\ UNCHANGED tasks
    BY <2>1, <2>3, GoToClaims
  <2>4. QED
    BY <1>5, <2>2, <2>3 DEF AskDuplicate
<1>6. ASSUME NEW r \in Requests, Suppress(r)
      PROVE  OneClaim'
  <2>1. UNCHANGED <<rows, byMemory, tasks, dispatches>>
    BY <1>6 DEF Suppress
  <2>2. GoTo(r, "undo") \/ GoTo(r, "fast")
    BY <1>6 DEF Suppress
  <2>3. QED
    BY <2>1, <2>2, GoToClaims
<1>7. ASSUME NEW r \in Requests, Undo(r) \/ Answer(r)
      PROVE  OneClaim'
  BY <1>7, RespondClaims DEF Undo, Answer, storeVars
<1>8. ASSUME NEW s \in Servers, NEW m \in Messages, Dispatch(s, m)
      PROVE  OneClaim'
  <2>1. /\ m \in tasks[s]
        /\ tasks' = [tasks EXCEPT ![s] = tasks[s] \ {m}]
        /\ dispatches' = [dispatches EXCEPT ![m] = IF dispatches[m] = 0 THEN 1 ELSE 2]
        /\ UNCHANGED <<rows, byMemory, queued>>
    BY <1>8 DEF Dispatch, storeVars, requestVars
  <2>2. /\ tasks'[s] = tasks[s] \ {m} /\ \A t \in Servers \ {s} : tasks'[t] = tasks[t]
        /\ \A x \in Messages \ {m} : dispatches'[x] = dispatches[x]
    BY <2>1 DEF InboundTypeOK
  <2>3. dispatches[m] = 0 => dispatches'[m] = 1
    BY <2>1 DEF InboundTypeOK
  <2> SUFFICES ASSUME NEW x \in Messages \ byMemory'
               PROVE  /\ \A r \in Requests : x \in queued'[r] =>
                            /\ x \in rows' /\ dispatches'[x] = 0
                            /\ \A q \in Requests : x \in queued'[q] => q = r
                            /\ \A t \in Servers : x \notin tasks'[t]
                      /\ \A t \in Servers : x \in tasks'[t] =>
                            /\ x \in rows' /\ dispatches'[x] = 0
                            /\ \A u \in Servers : x \in tasks'[u] => u = t
                      /\ dispatches'[x] > 0 => x \in rows' /\ dispatches'[x] = 1
    BY DEF OneClaim
  <2>4. x \in Messages \ byMemory
    BY <2>1
  <2>5. CASE x = m
    <3>1. m \in rows /\ dispatches[m] = 0
      BY <2>1, <2>4, <2>5 DEF OneClaim
    <3>2. \A t \in Servers : m \in tasks[t] => t = s
      BY <2>1, <2>4, <2>5 DEF OneClaim
    <3>3. \A r \in Requests : m \notin queued[r]
      BY <2>1, <2>4, <2>5 DEF OneClaim
    <3>4. \A t \in Servers : m \notin tasks'[t]
      BY <2>2, <3>2
    <3>5. QED
      BY <2>1, <2>3, <2>5, <3>1, <3>3, <3>4
  <2>6. CASE x # m
    <3>1. \A t \in Servers : x \in tasks'[t] <=> x \in tasks[t]
      BY <2>2, <2>6
    <3>2. QED
      BY <2>1, <2>2, <2>4, <2>6, <3>1 DEF OneClaim
  <2>7. QED
    BY <2>5, <2>6
<1>9. ASSUME NEW s \in Servers, NEW m \in OptOuts, Contact(s, m)
      PROVE  OneClaim'
  BY <1>9, NothingQueued DEF Contact, requestVars
<1>10. ASSUME NEW s \in Servers, ServerCrashes(s)
       PROVE  OneClaim'
  <2>1. UNCHANGED <<rows, byMemory, dispatches>>
    BY <1>10 DEF ServerCrashes
  <2>2. \A q \in Requests : queued'[q] \subseteq queued[q]
    BY <1>10 DEF ServerCrashes
  <2>3. \A t \in Servers : tasks'[t] \subseteq tasks[t]
    BY <1>10 DEF ServerCrashes, InboundTypeOK
  <2>4. QED
    BY <2>1, <2>2, <2>3, NothingQueued
<1>11. CASE KeysExpire \/ RedisLosesData \/ UNCHANGED inboundVars
  BY <1>11, NothingQueued DEF KeysExpire, RedisLosesData, inboundVars, storeVars, requestVars
<1>12. QED
  BY <1>1, <1>2, <1>3, <1>4, <1>5, <1>6, <1>7, <1>8, <1>9, <1>10, <1>11
     DEF InboundNext, RequestStep, InsertSqlAlchemy, InsertPsycopg, RecordStages

(* A message is dispatched twice only if the memory of a process decided   *)
(* that it was new, whatever fails, is lost or runs beside each other.     *)
THEOREM OneDispatch == InboundSpec => []DispatchedTwiceOnlyByMemory
<1>1. InboundInit => InboundTypeOK /\ StageInv /\ OneClaim
  BY InboundTypeInit, OneClaimInit
<1>2. InboundTypeOK /\ StageInv /\ OneClaim /\ [InboundNext]_inboundVars
        => (InboundTypeOK /\ StageInv /\ OneClaim)'
  BY InboundTypeStep, OneClaimStep
<1>3. InboundTypeOK /\ OneClaim => DispatchedTwiceOnlyByMemory
  <2> SUFFICES ASSUME InboundTypeOK, OneClaim,
                      NEW m \in Messages, dispatches[m] > 1, m \notin byMemory
               PROVE  FALSE
    BY DEF DispatchedTwiceOnlyByMemory
  <2>1. dispatches[m] \in 0..2
    BY DEF InboundTypeOK
  <2>2. dispatches[m] > 0 => dispatches[m] = 1
    BY DEF OneClaim
  <2>3. QED
    BY <2>1, <2>2
<1>4. QED
  BY <1>1, <1>2, <1>3, PTL DEF InboundSpec

-----------------------------------------------------------------------------
(* Opt-outs: one store works in every behaviour that matters, and what has *)
(* been written to it is never forgotten.                                  *)
OneStoreWorks == ~({"redis", "db"} \subseteq faults)

Kept(m) == \E x \in {"redis", "db"} \ faults : m \in suppressedIn[x]

(* A request that has an opt-out behind record_durable_suppression.        *)
Late(q) ==
    /\ stage[q] \in RecordStages \cup {"answer"}
    /\ left[q] # <<>> /\ Message(q) \in OptOuts

KeptInv ==
    OneStoreWorks =>
        /\ \A q \in Requests : Late(q) => Kept(Message(q))
        /\ \A q \in Requests : stage[q] # "undo"
        /\ \A m \in confirmed : Kept(m)
        /\ contacted = {}

(* Whoever may be answered "duplicate" is kept, or about to be.            *)
Known(m) == m \in wamidKeys \/ m \in acked \/ \E s \in Servers : m \in memWamids[s]

BeingKept(m) == \E q \in Requests : stage[q] = "suppress" /\ Message(q) = m

AckInv ==
    OneStoreWorks /\ "crash" \notin faults =>
        \A m \in OptOuts : Known(m) => Kept(m) \/ BeingKept(m)

(* How a request comes to be late, step by step.                           *)
NoneNewlyLate == \A q \in Requests : Late(q)' => Late(q) /\ Message(q)' = Message(q)

NoneStopsKeeping ==
    \A q \in Requests : stage[q] = "suppress" => stage'[q] = "suppress" /\ Message(q)' = Message(q)

LEMMA RecordedLate ==
  ASSUME InboundTypeOK, StageInv, NEW r \in Requests, NEW new, stage[r] \in RecordStages,
         Recorded(r, new)
  PROVE  NoneNewlyLate /\ NoneStopsKeeping /\ stage'[r] # "undo"
<1>1. left[r] # <<>> /\ Tail(left[r]) \in Seq(Messages)
  BY MessageType DEF StageInv
<1>2. CASE Message(r) \in OptOuts
  <2>1. stage' = [stage EXCEPT ![r] = "answer"] /\ left' = left
    BY <1>2 DEF Recorded
  <2>2. stage'[r] = "answer" /\ \A q \in Requests \ {r} : stage'[q] = stage[q]
    BY <2>1 DEF InboundTypeOK
  <2>3. QED
    BY <1>1, <1>2, <2>1, <2>2 DEF NoneNewlyLate, NoneStopsKeeping, Late, Message, RecordStages
<1>3. CASE Message(r) \notin OptOuts
  <2>1. /\ stage' = [stage EXCEPT ![r] = StageOf(Tail(left[r]))]
        /\ left' = [left EXCEPT ![r] = Tail(left[r])]
    BY <1>3 DEF Recorded
  <2>2. /\ stage'[r] = StageOf(Tail(left[r])) /\ left'[r] = Tail(left[r])
        /\ \A q \in Requests \ {r} : stage'[q] = stage[q] /\ left'[q] = left[q]
    BY <2>1 DEF InboundTypeOK
  <2>3. ~Late(r)' /\ stage'[r] # "undo"
    BY <1>1, <2>2, StageOfType DEF Late, Message, RecordStages
  <2>4. stage[r] # "suppress"
    BY DEF RecordStages
  <2>5. QED
    BY <2>2, <2>3, <2>4 DEF NoneNewlyLate, NoneStopsKeeping, Late, Message
<1>4. QED
  BY <1>2, <1>3

LEMMA RespondLate ==
  ASSUME InboundTypeOK, StageInv, NEW r \in Requests, stage[r] # "suppress", Respond(r)
  PROVE  NoneNewlyLate /\ NoneStopsKeeping /\ stage'[r] # "undo"
<1>1. stage' = [stage EXCEPT ![r] = "idle"] /\ left' = [left EXCEPT ![r] = <<>>]
  BY DEF Respond
<1>2. /\ stage'[r] = "idle" /\ left'[r] = <<>>
      /\ \A q \in Requests \ {r} : stage'[q] = stage[q] /\ left'[q] = left[q]
  BY <1>1 DEF InboundTypeOK
<1>3. QED
  BY <1>2 DEF NoneNewlyLate, NoneStopsKeeping, Late, Message

LEMMA GoToLate ==
  ASSUME InboundTypeOK, StageInv, NEW r \in Requests, NEW to \in Stages, GoTo(r, to),
         stage[r] # "suppress", to # "undo",
         stage[r] \in RecordStages \/ to \notin RecordStages \cup {"answer"}
  PROVE  NoneNewlyLate /\ NoneStopsKeeping /\ stage'[r] # "undo"
<1>1. stage' = [stage EXCEPT ![r] = to] /\ left' = left
  BY DEF GoTo
<1>2. stage'[r] = to /\ \A q \in Requests \ {r} : stage'[q] = stage[q]
  BY <1>1 DEF InboundTypeOK
<1>3. QED
  BY <1>1, <1>2 DEF NoneNewlyLate, NoneStopsKeeping, Late, Message, RecordStages

LEMMA KeptStays ==
  ASSUME UNCHANGED faults, NEW m,
         \A x \in {"redis", "db"} \ faults : suppressedIn[x] \subseteq suppressedIn'[x]
  PROVE  Kept(m) => Kept(m)'
  BY DEF Kept

(* The common part of all steps but Suppress, Answer, AskDuplicate and     *)
(* Contact.                                                                *)
LEMMA KeptOn ==
  ASSUME KeptInv, UNCHANGED <<faults, confirmed, contacted>>, NoneNewlyLate,
         \A x \in {"redis", "db"} \ faults : suppressedIn[x] \subseteq suppressedIn'[x],
         \A q \in Requests : stage'[q] = "undo" => stage[q] = "undo"
  PROVE  KeptInv'
<1> SUFFICES ASSUME OneStoreWorks
             PROVE  /\ \A q \in Requests : Late(q)' => Kept(Message(q))'
                    /\ \A q \in Requests : stage'[q] # "undo"
                    /\ \A m \in confirmed' : Kept(m)'
                    /\ contacted' = {}
  BY DEF KeptInv, OneStoreWorks
<1>1. \A q \in Requests : Late(q)' => Kept(Message(q))'
  <2> SUFFICES ASSUME NEW q \in Requests, Late(q)'
               PROVE  Kept(Message(q))'
    OBVIOUS
  <2>1. Late(q) /\ Message(q)' = Message(q)
    BY DEF NoneNewlyLate
  <2>2. \E x \in {"redis", "db"} \ faults : Message(q) \in suppressedIn[x]
    BY <2>1 DEF KeptInv, Kept
  <2>3. QED
    BY <2>1, <2>2 DEF Kept
<1>2. \A m \in confirmed' : Kept(m)'
  BY DEF KeptInv, Kept
<1>3. QED
  BY <1>1, <1>2 DEF KeptInv

LEMMA AckOn ==
  ASSUME AckInv, UNCHANGED faults, NoneStopsKeeping,
         \A x \in {"redis", "db"} \ faults : suppressedIn[x] \subseteq suppressedIn'[x],
         \A m \in OptOuts : Known(m)' => Known(m) \/ Kept(m)' \/ BeingKept(m)'
  PROVE  AckInv'
<1> SUFFICES ASSUME OneStoreWorks, "crash" \notin faults, NEW m \in OptOuts, Known(m)'
             PROVE  Kept(m)' \/ BeingKept(m)'
  BY DEF AckInv, OneStoreWorks
<1>1. CASE Kept(m)
  BY <1>1, KeptStays
<1>2. CASE BeingKept(m)
  BY <1>2 DEF BeingKept, NoneStopsKeeping
<1>3. QED
  BY <1>1, <1>2 DEF AckInv

(* record_durable_suppression reaches the store that works.                *)
LEMMA SuppressKeeps ==
  ASSUME InboundTypeOK, StageInv, NEW r \in Requests, Suppress(r)
  PROVE  /\ \A x \in {"redis", "db"} \ faults : suppressedIn[x] \subseteq suppressedIn'[x]
         /\ OneStoreWorks => Kept(Message(r))' /\ GoTo(r, "fast") /\ Message(r)' = Message(r)
<1>1. PICK ok \in SUBSET {"redis", "db"}, done \in SUBSET {"redis", "db"} :
          /\ ok \subseteq done
          /\ {"redis", "db"} \ faults \subseteq ok
          /\ LET marked == IF ok = {} THEN done ELSE done \cup {ServerOf[r]} IN
             suppressedIn' = [x \in Stores |->
                 IF x \in marked THEN suppressedIn[x] \cup {Message(r)} ELSE suppressedIn[x]]
          /\ GoTo(r, IF ok = {} THEN "undo" ELSE "fast")
  BY DEF Suppress
<1>2. faults' = faults
  BY DEF Suppress
<1>3. \A x \in {"redis", "db"} : suppressedIn[x] \subseteq suppressedIn'[x]
  BY <1>1 DEF Stores
<1>4. \A x \in ok : Message(r) \in suppressedIn'[x]
  BY <1>1 DEF Stores
<1>5. Message(r)' = Message(r)
  BY <1>1 DEF GoTo, Message
<1>6. ASSUME OneStoreWorks
      PROVE  Kept(Message(r))' /\ GoTo(r, "fast")
  <2>1. PICK x \in {"redis", "db"} \ faults : TRUE
    BY <1>6 DEF OneStoreWorks
  <2>2. x \in ok /\ ok # {}
    BY <1>1, <2>1
  <2>3. QED
    BY <1>1, <1>2, <1>4, <1>5, <2>1, <2>2 DEF Kept
<1>7. QED
  BY <1>3, <1>5, <1>6

-----------------------------------------------------------------------------
LEMMA OptOutInit == InboundInit => KeptInv /\ AckInv
  BY DEF InboundInit, KeptInv, AckInv, Late, Known, RecordStages

LEMMA RequestStepOptOuts ==
  ASSUME InboundTypeOK, StageInv, KeptInv, AckInv, NEW r \in Requests, RequestStep(r)
  PROVE  KeptInv' /\ AckInv'
<1>1. faults' = faults /\ contacted' = contacted
  BY DEF RequestStep, FastLock, InsertSqlAlchemy, InsertPsycopg, Insert, InsertMemory,
         AskDuplicate, Suppress, Undo, Answer, notes
<1>2. ASSUME stage[r] \in RecordStages,
             UNCHANGED <<suppressedIn, wamidKeys, memWamids, acked, confirmed>>,
             \/ \E new \in BOOLEAN : Recorded(r, new)
             \/ \E to \in RecordStages : GoTo(r, to)
      PROVE  KeptInv' /\ AckInv'
  <2>1. NoneNewlyLate /\ NoneStopsKeeping /\ stage'[r] # "undo"
    <3>1. CASE \E new \in BOOLEAN : Recorded(r, new)
      BY <1>2, <3>1, RecordedLate
    <3>2. CASE \E to \in RecordStages : GoTo(r, to)
      BY <1>2, <3>2, GoToLate DEF Stages, RecordStages
    <3>3. QED
      BY <1>2, <3>1, <3>2
  <2>2. \A q \in Requests : stage'[q] = "undo" => stage[q] = "undo"
    BY <1>2, <2>1 DEF Recorded, GoTo, InboundTypeOK
  <2>3. \A m \in OptOuts : Known(m)' => Known(m)
    BY <1>2 DEF Known
  <2>4. QED
    BY <1>1, <1>2, <2>1, <2>2, <2>3, KeptOn, AckOn
<1>3. CASE FastLock(r)
  <2>1. /\ stage[r] \in RecordStages
        /\ UNCHANGED <<suppressedIn, wamidKeys, memWamids, acked, confirmed>>
    BY <1>3 DEF FastLock, RecordStages, memoryVars, notes
  <2>2. Recorded(r, FALSE) \/ GoTo(r, "sql")
    BY <1>3 DEF FastLock
  <2>3. QED
    BY <1>2, <2>1, <2>2 DEF RecordStages
<1>4. ASSUME NEW otherwise \in RecordStages, stage[r] \in RecordStages, Insert(r, otherwise)
      PROVE  KeptInv' /\ AckInv'
  <2>1. UNCHANGED <<suppressedIn, wamidKeys, memWamids, acked, confirmed>>
    BY <1>4 DEF Insert, memoryVars, notes
  <2>2. Recorded(r, Message(r) \notin rows) \/ GoTo(r, otherwise)
    BY <1>4 DEF Insert
  <2>3. QED
    BY <1>2, <1>4, <2>1, <2>2
<1>5. CASE InsertMemory(r)
  <2>1. /\ stage[r] \in RecordStages
        /\ UNCHANGED <<suppressedIn, wamidKeys, memWamids, acked, confirmed>>
    BY <1>5 DEF InsertMemory, RecordStages, storeVars, notes
  <2>2. \E new \in BOOLEAN : Recorded(r, new)
    BY <1>5 DEF InsertMemory
  <2>3. QED
    BY <1>2, <2>1, <2>2
<1>6. ASSUME AskDuplicate(r)
      PROVE  KeptInv' /\ AckInv'
  <2> DEFINE s == ServerOf[r]
  <2>0. PICK m \in OptOuts : m = Message(r)
    BY <1>6 DEF AskDuplicate, StageInv, OptOutStages, Message
  <2>1. /\ stage[r] = "dup" /\ s \in Servers
        /\ UNCHANGED <<suppressedIn, confirmed>>
    BY <1>6, InboundAssumption DEF AskDuplicate
  <2>2. \/ GoTo(r, "suppress") /\ UNCHANGED acked
        \/ Respond(r) /\ acked' = acked \cup {m} /\ Known(m)
    BY <1>6, <2>0, <2>1 DEF AskDuplicate, Known
  <2>3. NoneNewlyLate /\ NoneStopsKeeping /\ stage'[r] # "undo"
    BY <2>1, <2>2, GoToLate, RespondLate DEF Stages, RecordStages
  <2>4. \A q \in Requests : stage'[q] = "undo" => stage[q] = "undo"
    BY <2>2, <2>3 DEF GoTo, Respond, InboundTypeOK
  <2>5. /\ wamidKeys' \subseteq wamidKeys \cup {m}
        /\ \A t \in Servers : memWamids'[t] \subseteq memWamids[t] \cup {m}
    <3>1. wamidKeys' \subseteq wamidKeys \cup {m}
      BY <1>6, <2>0 DEF AskDuplicate
    <3>2. memWamids' = memWamids \/ memWamids' = [memWamids EXCEPT ![s] = memWamids[s] \cup {m}]
      BY <1>6, <2>0 DEF AskDuplicate
    <3>3. QED
      BY <3>1, <3>2 DEF InboundTypeOK
  <2>6. Known(m) \/ BeingKept(m)'
    <3>1. CASE GoTo(r, "suppress")
      <4>1. stage'[r] = "suppress" /\ Message(r)' = m
        BY <2>0, <3>1 DEF GoTo, Message, InboundTypeOK
      <4>2. QED
        BY <4>1 DEF BeingKept
    <3>2. QED
      BY <2>2, <3>1
  <2>7. \A x \in OptOuts : Known(x)' => Known(x) \/ BeingKept(x)'
    <3> SUFFICES ASSUME NEW x \in OptOuts, Known(x)'
                 PROVE  Known(x) \/ BeingKept(x)'
      OBVIOUS
    <3>1. CASE x = m
      BY <2>6, <3>1
    <3>2. CASE x # m
      <4>1. acked' \subseteq acked \cup {m}
        BY <2>2
      <4>2. x \in wamidKeys' => x \in wamidKeys
        BY <2>5, <3>2
      <4>3. x \in acked' => x \in acked
        BY <3>2, <4>1
      <4>4. \A t \in Servers : x \in memWamids'[t] => x \in memWamids[t]
        BY <2>5, <3>2
      <4>5. QED
        BY <4>2, <4>3, <4>4 DEF Known
    <3>3. QED
      BY <3>1, <3>2
  <2>8. KeptInv'
    BY <1>1, <2>1, <2>3, <2>4, KeptOn
  <2>9. AckInv'
    BY <1>1, <2>1, <2>3, <2>7, AckOn
  <2>10. QED
    BY <2>8, <2>9
<1>7. ASSUME Suppress(r)
      PROVE  KeptInv' /\ AckInv'
  <2>1. /\ stage[r] = "suppress"
        /\ UNCHANGED <<wamidKeys, memWamids, acked, confirmed>>
    BY <1>7 DEF Suppress, memoryVars, notes
  <2>2. \A x \in {"redis", "db"} \ faults : suppressedIn[x] \subseteq suppressedIn'[x]
    BY <1>7, SuppressKeeps
  <2>3. ASSUME OneStoreWorks
        PROVE  /\ Kept(Message(r))' /\ Message(r)' = Message(r)
               /\ stage'[r] = "fast" /\ left' = left
               /\ \A q \in Requests \ {r} : stage'[q] = stage[q]
    BY <1>7, <2>3, SuppressKeeps DEF GoTo, InboundTypeOK
  <2>4. KeptInv'
    <3> SUFFICES ASSUME OneStoreWorks
                 PROVE  /\ \A q \in Requests : Late(q)' => Kept(Message(q))'
                        /\ \A q \in Requests : stage'[q] # "undo"
                        /\ \A m \in confirmed' : Kept(m)'
                        /\ contacted' = {}
      BY <1>1 DEF KeptInv, OneStoreWorks
    <3>1. \A q \in Requests : Late(q)' => Kept(Message(q))'
      <4> SUFFICES ASSUME NEW q \in Requests, Late(q)'
                   PROVE  Kept(Message(q))'
        OBVIOUS
      <4>1. CASE q = r
        BY <2>3, <4>1
      <4>2. CASE q # r
        <5>1. Late(q) /\ Message(q)' = Message(q)
          BY <2>3, <4>2 DEF Late, Message
        <5>2. \E x \in {"redis", "db"} \ faults : Message(q) \in suppressedIn[x]
          BY <5>1 DEF KeptInv, Kept
        <5>3. QED
          BY <1>1, <2>2, <5>1, <5>2 DEF Kept
      <4>3. QED
        BY <4>1, <4>2
    <3>2. \A q \in Requests : stage'[q] # "undo"
      BY <2>3 DEF KeptInv
    <3>3. \A m \in confirmed' : Kept(m)'
      BY <1>1, <2>1, <2>2 DEF KeptInv, Kept
    <3>4. QED
      BY <1>1, <3>1, <3>2, <3>3 DEF KeptInv
  <2>5. AckInv'
    <3> SUFFICES ASSUME OneStoreWorks, "crash" \notin faults, NEW m \in OptOuts, Known(m)'
                 PROVE  Kept(m)' \/ BeingKept(m)'
      BY <1>1 DEF AckInv, OneStoreWorks
    <3>1. Kept(m) \/ BeingKept(m)
      BY <2>1 DEF AckInv, Known
    <3>2. CASE Kept(m)
      BY <1>1, <2>2, <3>2, KeptStays
    <3>3. CASE BeingKept(m)
      <4>1. PICK q \in Requests : stage[q] = "suppress" /\ Message(q) = m
        BY <3>3 DEF BeingKept
      <4>2. CASE q = r
        BY <2>3, <4>1, <4>2
      <4>3. CASE q # r
        BY <2>3, <4>1, <4>3 DEF BeingKept, Message
      <4>4. QED
        BY <4>2, <4>3
    <3>4. QED
      BY <3>1, <3>2, <3>3
  <2>6. QED
    BY <2>4, <2>5
<1>8. ASSUME Undo(r)
      PROVE  KeptInv' /\ AckInv'
  <2>1. ~OneStoreWorks
    BY <1>8 DEF Undo, KeptInv
  <2>2. ~OneStoreWorks'
    BY <1>1, <2>1 DEF OneStoreWorks
  <2>3. QED
    BY <2>2 DEF KeptInv, AckInv
<1>9. ASSUME Answer(r)
      PROVE  KeptInv' /\ AckInv'
  <2> DEFINE optOut == {m \in OptOuts : left[r] # <<>> /\ m = Message(r)}
  <2>1. /\ stage[r] = "answer" /\ Respond(r)
        /\ UNCHANGED <<suppressedIn, wamidKeys, memWamids>>
        /\ acked' = acked \cup optOut /\ confirmed' = confirmed \cup optOut
    BY <1>9 DEF Answer, storeVars, memoryVars
  <2>2. NoneNewlyLate /\ NoneStopsKeeping /\ stage'[r] # "undo"
    BY <2>1, RespondLate
  <2>3. \A m \in optOut : Late(r) /\ m = Message(r)
    BY <2>1 DEF Late
  <2>4. OneStoreWorks => \A m \in optOut : Kept(m)
    BY <2>3 DEF KeptInv
  <2> HIDE DEF optOut
  <2>5. \A m : Kept(m) => Kept(m)'
    BY <1>1, <2>1 DEF Kept
  <2>6. KeptInv'
    <3> SUFFICES ASSUME OneStoreWorks
                 PROVE  /\ \A q \in Requests : Late(q)' => Kept(Message(q))'
                        /\ \A q \in Requests : stage'[q] # "undo"
                        /\ \A m \in confirmed' : Kept(m)'
                        /\ contacted' = {}
      BY <1>1 DEF KeptInv, OneStoreWorks
    <3>1. \A q \in Requests : Late(q)' => Kept(Message(q))'
      BY <2>2, <2>5 DEF KeptInv, NoneNewlyLate
    <3>2. \A q \in Requests : stage'[q] # "undo"
      BY <2>1 DEF KeptInv, Respond, InboundTypeOK
    <3>3. \A m \in confirmed' : Kept(m)'
      BY <2>1, <2>4, <2>5 DEF KeptInv
    <3>4. QED
      BY <1>1, <3>1, <3>2, <3>3 DEF KeptInv
  <2>7. AckInv'
    <3> SUFFICES ASSUME OneStoreWorks, "crash" \notin faults, NEW m \in OptOuts, Known(m)'
                 PROVE  Kept(m)' \/ BeingKept(m)'
      BY <1>1 DEF AckInv, OneStoreWorks
    <3>1. Known(m) \/ m \in optOut
      BY <2>1 DEF Known
    <3>2. Kept(m) \/ BeingKept(m)
      BY <2>4, <3>1 DEF AckInv
    <3>3. QED
      BY <2>2, <2>5, <3>2 DEF BeingKept, NoneStopsKeeping
  <2>8. QED
    BY <2>6, <2>7
<1>10. QED
  BY <1>3, <1>4, <1>5, <1>6, <1>7, <1>8, <1>9
     DEF RequestStep, InsertSqlAlchemy, InsertPsycopg, RecordStages

LEMMA OptOutStep ==
  InboundTypeOK /\ StageInv /\ KeptInv /\ AckInv /\ [InboundNext]_inboundVars
    => KeptInv' /\ AckInv'
<1> SUFFICES ASSUME InboundTypeOK, StageInv, KeptInv, AckInv, [InboundNext]_inboundVars
             PROVE  KeptInv' /\ AckInv'
  OBVIOUS
<1>1. ASSUME NEW r \in Requests, Deliver(r)
      PROVE  KeptInv' /\ AckInv'
  <2>1. /\ stage[r] = "idle"
        /\ stage' = [stage EXCEPT ![r] = StageOf(batch)]
        /\ left' = [left EXCEPT ![r] = batch]
        /\ UNCHANGED <<faults, suppressedIn, wamidKeys, memWamids, acked, confirmed, contacted>>
    BY <1>1 DEF Deliver, storeVars, memoryVars, notes
  <2>2. /\ stage'[r] = StageOf(batch) /\ left'[r] = batch
        /\ \A q \in Requests \ {r} : stage'[q] = stage[q] /\ left'[q] = left[q]
    BY <2>1 DEF InboundTypeOK
  <2>3. batch \in Seq(Messages) /\ batch # <<>>
    BY DEF InboundTypeOK
  <2>4. ~Late(r)' /\ stage'[r] # "undo"
    BY <2>2, <2>3, StageOfType DEF Late, Message, RecordStages
  <2>5. NoneNewlyLate /\ NoneStopsKeeping
    BY <2>1, <2>2, <2>4 DEF NoneNewlyLate, NoneStopsKeeping, Late, Message
  <2>6. \A q \in Requests : stage'[q] = "undo" => stage[q] = "undo"
    BY <2>2, <2>4
  <2>7. \A m \in OptOuts : Known(m)' => Known(m)
    BY <2>1 DEF Known
  <2>8. QED
    BY <2>1, <2>5, <2>6, <2>7, KeptOn, AckOn
<1>2. ASSUME NEW r \in Requests, RequestStep(r)
      PROVE  KeptInv' /\ AckInv'
  BY <1>2, RequestStepOptOuts
<1>3. ASSUME NEW s \in Servers, NEW m \in OptOuts, Contact(s, m)
      PROVE  KeptInv' /\ AckInv'
  <2>1. UNCHANGED <<faults, stage, left, wamidKeys, memWamids, acked, confirmed>>
    BY <1>3 DEF Contact, memoryVars, requestVars
  <2>2. \A x \in {"redis", "db"} : suppressedIn[x] \subseteq suppressedIn'[x]
    <3>1. suppressedIn' = suppressedIn
            \/ suppressedIn' = [suppressedIn EXCEPT !["redis"] = suppressedIn["redis"] \cup {m}]
      BY <1>3 DEF Contact
    <3>2. QED
      BY <3>1 DEF InboundTypeOK, Stores
  <2>3. NoneNewlyLate /\ NoneStopsKeeping
    BY <2>1 DEF NoneNewlyLate, NoneStopsKeeping, Late, Message
  <2>4. OneStoreWorks => contacted' = contacted
    <3> SUFFICES ASSUME OneStoreWorks PROVE contacted' = contacted
      OBVIOUS
    <3>1. PICK heard \in SUBSET {"redis", "db"} :
              /\ {"redis", "db"} \ faults \subseteq heard
              /\ contacted' = IF m \in confirmed /\ ~Finds(s, m, heard)
                                THEN contacted \cup {m} ELSE contacted
      BY <1>3 DEF Contact
    <3>2. m \in confirmed => Kept(m)
      BY DEF KeptInv
    <3>3. m \in confirmed => Finds(s, m, heard)
      BY <3>1, <3>2 DEF Kept, Finds
    <3>4. QED
      BY <3>1, <3>3
  <2>5. KeptInv'
    <3>1. CASE OneStoreWorks
      BY <2>1, <2>2, <2>3, <2>4, <3>1, KeptOn
    <3>2. CASE ~OneStoreWorks
      BY <2>1, <3>2 DEF KeptInv, OneStoreWorks
    <3>3. QED
      BY <3>1, <3>2
  <2>6. \A x \in OptOuts : Known(x)' => Known(x)
    BY <2>1 DEF Known
  <2>7. AckInv'
    BY <2>1, <2>2, <2>3, <2>6, AckOn
  <2>8. QED
    BY <2>5, <2>7
<1>4. ASSUME NEW s \in Servers, ServerCrashes(s)
      PROVE  KeptInv' /\ AckInv'
  <2>1. /\ "crash" \in faults
        /\ UNCHANGED <<faults, confirmed, contacted>>
        /\ suppressedIn' = [suppressedIn EXCEPT ![s] = {}]
        /\ stage' = [r \in Requests |-> IF ServerOf[r] = s THEN "idle" ELSE stage[r]]
        /\ left' = [r \in Requests |-> IF ServerOf[r] = s THEN <<>> ELSE left[r]]
    BY <1>4 DEF ServerCrashes, notes
  <2>2. \A x \in {"redis", "db"} : suppressedIn'[x] = suppressedIn[x]
    BY <2>1, InboundAssumption DEF InboundTypeOK, Stores
  <2>3. NoneNewlyLate
    BY <2>1 DEF NoneNewlyLate, Late, Message, RecordStages
  <2>4. \A q \in Requests : stage'[q] = "undo" => stage[q] = "undo"
    BY <2>1
  <2>5. KeptInv'
    BY <2>1, <2>2, <2>3, <2>4, KeptOn
  <2>6. AckInv'
    BY <2>1 DEF AckInv
  <2>7. QED
    BY <2>5, <2>6
<1>5. ASSUME KeysExpire \/ RedisLosesData \/ \E s \in Servers, m \in Messages : Dispatch(s, m)
      PROVE  KeptInv' /\ AckInv'
  <2>1. UNCHANGED <<faults, stage, left, acked, confirmed, contacted>>
    BY <1>5 DEF KeysExpire, RedisLosesData, Dispatch, requestVars, notes
  <2>2. \A x \in {"redis", "db"} \ faults : suppressedIn[x] \subseteq suppressedIn'[x]
    <3>1. CASE UNCHANGED suppressedIn
      BY <3>1
    <3>2. CASE "redis" \in faults /\ suppressedIn' = [suppressedIn EXCEPT !["redis"] = {}]
      BY <3>2 DEF InboundTypeOK, Stores
    <3>3. QED
      BY <1>5, <3>1, <3>2 DEF KeysExpire, RedisLosesData, Dispatch, storeVars
  <2>3. NoneNewlyLate /\ NoneStopsKeeping
    BY <2>1 DEF NoneNewlyLate, NoneStopsKeeping, Late, Message
  <2>4. \A m \in OptOuts : Known(m)' => Known(m)
    <3>1. wamidKeys' \subseteq wamidKeys
      BY <1>5 DEF KeysExpire, RedisLosesData, Dispatch, storeVars
    <3>2. \A s \in Servers : memWamids'[s] \subseteq memWamids[s]
      BY <1>5 DEF KeysExpire, RedisLosesData, Dispatch, memoryVars
    <3>3. QED
      BY <2>1, <3>1, <3>2 DEF Known
  <2>5. QED
    BY <2>1, <2>2, <2>3, <2>4, KeptOn, AckOn
<1>6. CASE UNCHANGED inboundVars
  <2>1. UNCHANGED <<faults, stage, left, wamidKeys, memWamids, suppressedIn, acked, confirmed, contacted>>
    BY <1>6 DEF inboundVars, storeVars, memoryVars, requestVars, notes
  <2>2. NoneNewlyLate /\ NoneStopsKeeping
    BY <2>1 DEF NoneNewlyLate, NoneStopsKeeping, Late, Message
  <2>3. \A m \in OptOuts : Known(m)' => Known(m)
    BY <2>1 DEF Known
  <2>4. QED
    BY <2>1, <2>2, <2>3, KeptOn, AckOn
<1>7. QED
  BY <1>1, <1>2, <1>3, <1>4, <1>5, <1>6 DEF InboundNext

LEMMA OptOutsInductive ==
  InboundSpec => [](InboundTypeOK /\ StageInv /\ KeptInv /\ AckInv)
<1>1. InboundInit => InboundTypeOK /\ StageInv /\ KeptInv /\ AckInv
  BY InboundTypeInit, OptOutInit
<1>2. InboundTypeOK /\ StageInv /\ KeptInv /\ AckInv /\ [InboundNext]_inboundVars
        => (InboundTypeOK /\ StageInv /\ KeptInv /\ AckInv)'
  BY InboundTypeStep, OptOutStep
<1>3. QED
  BY <1>1, <1>2, PTL DEF InboundSpec

(* An opt-out that was answered with 200 is in the store that works or a   *)
(* request is about to put it there, unless a process may die.             *)
THEOREM OptOutIsKept == InboundSpec => []AcknowledgedOptOutIsKept
<1>1. AckInv /\ InboundTypeOK => AcknowledgedOptOutIsKept
  BY DEF AckInv, InboundTypeOK, AcknowledgedOptOutIsKept, OneStoreWorks, Known, Kept, BeingKept
<1>2. QED
  BY <1>1, OptOutsInductive, PTL

(* Nobody contacts a customer whose opt-out was confirmed, whichever of    *)
(* the two stores fails and whichever processes die.                       *)
THEOREM OptOutIsHonoured == InboundSpec => []ConfirmedOptOutIsHonoured
<1>1. KeptInv => ConfirmedOptOutIsHonoured
  BY DEF KeptInv, ConfirmedOptOutIsHonoured, OneStoreWorks
<1>2. QED
  BY <1>1, OptOutsInductive, PTL

=============================================================================
