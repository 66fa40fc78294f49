-------------------------- MODULE HumanHold_proofs --------------------------
(***************************************************************************)
(* Proofs about the desk (AgentDesk) and the bot beside it (HumanHold), for *)
(* any number of server processes, agents, chats, requests and turns.  Of  *)
(* the desk: the types, the bound on what the router gives an agent, and   *)
(* what an idempotency key protects.  Of the bot: the types, that the desk *)
(* behaves beside it as it does alone, and that it answers only when it    *)
(* was free to speak.                                                      *)
(***************************************************************************)
EXTENDS HumanHold, FiniteSetTheorems, TLAPS

(* The processes that have selected an agent and not yet written it.       *)
PickedFor(a) == {d \in Desks : \E x \in picked[d] : x.to = a}

(* max_active_chats is never above its largest value.                      *)
PeakInv == \A a \in Agents : agent[a].max <= peak[a]

(* A process under way to an agent counts like the chat it will bring.     *)
Bounded(a) ==
    Cardinality(RoutedTo(a)) + Cardinality(PickedFor(a)) <= peak[a] + Cardinality(Desks) - 1

LoadInv == \A a \in Agents : Bounded(a)

(* What was recorded when a request asked is still recorded, under the key *)
(* of the request that recorded it; a request that passed had another.     *)
SavedInv ==
    /\ \A r \in Sends : send[r] = "done" => KeyOf[r] \in saved
    /\ \A r \in Sends : \A s \in asked[r] : KeyOf[s] # KeyOf[r]

DeskInv == DeskTypeOK /\ PeakInv /\ LoadInv /\ SavedInv

-----------------------------------------------------------------------------
LEMMA DesksCounted ==
  IsFiniteSet(Desks) /\ Cardinality(Desks) \in Nat /\ Cardinality(Desks) >= 1
<1>1. IsFiniteSet(Desks) /\ Desks # {}
  BY DeskAssumption
<1>2. Cardinality(Desks) \in Nat /\ Cardinality(Desks) # 0
  BY <1>1, FS_CardinalityType, FS_EmptySet
<1>3. QED
  BY <1>1, <1>2

(* Sets of chats and of processes are finite.                              *)
LEMMA ChatsCounted ==
  ASSUME NEW S, S \subseteq Chats
  PROVE  IsFiniteSet(S) /\ Cardinality(S) \in Nat
  BY DeskAssumption, FS_Subset, FS_CardinalityType

LEMMA PickedCounted ==
  ASSUME NEW S, S \subseteq Desks
  PROVE  IsFiniteSet(S) /\ Cardinality(S) \in Nat /\ Cardinality(S) <= Cardinality(Desks)
  BY DesksCounted, FS_Subset, FS_CardinalityType

-----------------------------------------------------------------------------
(* Types                                                                   *)

LEMMA DeskInitTyped ==
  DeskInit => DeskTypeOK
<1> SUFFICES ASSUME DeskInit PROVE DeskTypeOK
  OBVIOUS
<1>1. \A m \in Capacities : [exists |-> TRUE, active |-> TRUE, max |-> m] \in AgentRow
  BY DeskAssumption DEF AgentRow
<1>2. agent \in [Agents -> AgentRow]
  BY <1>1 DEF DeskInit
<1>3. [status |-> "unassigned", to |-> Nobody, muted |-> FALSE] \in ChatRow
  BY DEF ChatRow, Takers
<1>4. conv \in [Chats -> ChatRow]
  BY <1>3 DEF DeskInit
<1>5. peak \in [Agents -> Nat]
  BY <1>2 DEF DeskInit, AgentRow
<1>6. /\ picked \in [Desks -> SUBSET Choice]
      /\ \A d \in Desks : picked[d] = {}
  BY DEF DeskInit
<1>7. /\ send \in [Sends -> {"new"}] /\ asked \in [Sends -> SUBSET Sends]
      /\ saved = {} /\ routed = {} /\ edits \in 0..MaxEdits
  BY DeskAssumption DEF DeskInit
<1>8. QED
  BY <1>2, <1>4, <1>5, <1>6, <1>7 DEF DeskTypeOK

(* A write to one chat.                                                    *)
LEMMA ChangeChatTyped ==
  ASSUME DeskTypeOK, NEW c \in Chats, NEW row \in ChatRow, NEW hands \in SUBSET Chats,
         ChangeChat(c, row, hands), send' = send
  PROVE  DeskTypeOK'
  BY DEF ChangeChat, DeskTypeOK

LEMMA TakenByTyped ==
  ASSUME DeskTypeOK, NEW c \in Chats, NEW a \in Takers, TakenBy(c, a)
  PROVE  /\ conv' \in [Chats -> ChatRow] /\ routed' \subseteq routed
         /\ UNCHANGED <<agent, picked, saved, edits, peak, asked>>
<1>1. conv[c] \in ChatRow
  BY DEF DeskTypeOK
<1>2. [conv[c] EXCEPT !.muted = TRUE] \in ChatRow
  BY <1>1 DEF ChatRow
<1>3. [status |-> "assigned", to |-> a, muted |-> TRUE] \in ChatRow
  BY DEF ChatRow
<1>4. QED
  BY <1>2, <1>3 DEF TakenBy, ChangeChat, DeskTypeOK

(* A change to one agent.                                                  *)
LEMMA ChangeAgentTyped ==
  ASSUME DeskTypeOK, NEW a \in Agents, NEW row \in AgentRow, ChangeAgent(a, row)
  PROVE  /\ agent' \in [Agents -> AgentRow] /\ peak' \in [Agents -> Nat]
         /\ edits' \in 0..MaxEdits
         /\ UNCHANGED <<picked, send, saved, asked>>
  BY DeskAssumption DEF ChangeAgent, DeskTypeOK, AgentRow

LEMMA RoutingTyped ==
  ASSUME DeskTypeOK, NEW d \in Desks, NEW c \in Chats,
         SelectAgent(d, c) \/ Assign(d) \/ AssignFails(d)
  PROVE  DeskTypeOK'
<1>1. CASE SelectAgent(d, c)
  <2>1. PICK a \in Takers : picked' = [picked EXCEPT ![d] = {[chat |-> c, to |-> a]}]
    BY <1>1 DEF SelectAgent
  <2>2. {[chat |-> c, to |-> a]} \subseteq Choice
    BY DEF Choice
  <2>3. QED
    BY <1>1, <2>1, <2>2 DEF SelectAgent, DeskTypeOK
<1>2. CASE Assign(d)
  <2>1. PICK x \in picked[d] :
          IF x.to = Nobody
            THEN /\ conv' = [conv EXCEPT ![x.chat] =
                        [status |-> "unassigned", to |-> Nobody, muted |-> FALSE]]
                 /\ routed' = routed \ {x.chat}
            ELSE /\ conv' = [conv EXCEPT ![x.chat].status = "assigned", ![x.chat].to = x.to]
                 /\ routed' = routed \cup {x.chat}
    BY <1>2 DEF Assign
  <2>2. x.chat \in Chats /\ x.to \in Takers
    BY DEF DeskTypeOK, Choice
  <2>3. conv[x.chat] \in ChatRow
    BY <2>2 DEF DeskTypeOK
  <2>4. /\ [status |-> "unassigned", to |-> Nobody, muted |-> FALSE] \in ChatRow
        /\ [conv[x.chat] EXCEPT !.status = "assigned", !.to = x.to] \in ChatRow
    BY <2>2, <2>3 DEF ChatRow, Takers
  <2>5. CASE x.to = Nobody
    BY <1>2, <2>1, <2>2, <2>4, <2>5 DEF Assign, DeskTypeOK
  <2>6. CASE x.to # Nobody
    <3>1. conv' = [conv EXCEPT ![x.chat] = [conv[x.chat] EXCEPT !.status = "assigned", !.to = x.to]]
      BY <2>1, <2>6, <2>2 DEF DeskTypeOK, ChatRow
    <3>2. QED
      BY <1>2, <2>1, <2>2, <2>4, <2>6, <3>1 DEF Assign, DeskTypeOK
  <2>7. QED
    BY <2>5, <2>6
<1>3. CASE AssignFails(d)
  BY <1>3 DEF AssignFails, DeskTypeOK
<1>4. QED
  BY <1>1, <1>2, <1>3

LEMMA RowTyped ==
  ASSUME DeskTypeOK, NEW c \in Chats, NEW muted \in BOOLEAN,
         Resolve(c) \/ MarkUnassigned(c) \/ Escalate(c) \/ SetBotMode(c, muted)
  PROVE  DeskTypeOK'
<1>1. conv[c] \in ChatRow /\ routed \subseteq Chats
  BY DEF DeskTypeOK
<1>2. CASE Resolve(c)
  <2>1. [conv[c] EXCEPT !.status = "resolved", !.muted = FALSE] \in ChatRow
    BY <1>1 DEF ChatRow
  <2>2. QED
    BY <1>1, <1>2, <2>1, ChangeChatTyped DEF Resolve
<1>3. CASE MarkUnassigned(c)
  <2>1. [conv[c] EXCEPT !.status = "unassigned", !.to = Nobody] \in ChatRow
    BY <1>1 DEF ChatRow, Takers
  <2>2. QED
    BY <1>1, <1>3, <2>1, ChangeChatTyped DEF MarkUnassigned
<1>4. CASE Escalate(c)
  <2>1. [conv[c] EXCEPT !.status = "unassigned", !.muted = TRUE] \in ChatRow
    BY <1>1 DEF ChatRow
  <2>2. QED
    BY <1>1, <1>4, <2>1, ChangeChatTyped DEF Escalate
<1>5. CASE SetBotMode(c, muted)
  <2>1. [conv[c] EXCEPT !.muted = muted] \in ChatRow
    BY <1>1 DEF ChatRow
  <2>2. QED
    BY <1>1, <1>5, <2>1, ChangeChatTyped DEF SetBotMode
<1>6. QED
  BY <1>2, <1>3, <1>4, <1>5

LEMMA AgentTyped ==
  ASSUME DeskTypeOK, NEW a \in Agents,
         \/ \E active \in BOOLEAN, max \in Capacities : UpdateAgent(a, active, max)
         \/ DeleteAgent(a)
  PROVE  DeskTypeOK'
<1>1. ASSUME NEW active \in BOOLEAN, NEW max \in Capacities, UpdateAgent(a, active, max)
      PROVE  DeskTypeOK'
  <2>1. [exists |-> TRUE, active |-> active, max |-> max] \in AgentRow
    BY DeskAssumption DEF AgentRow
  <2>2. QED
    BY <1>1, <2>1, ChangeAgentTyped DEF UpdateAgent, DeskTypeOK
<1>2. CASE DeleteAgent(a)
  <2>1. [agent[a] EXCEPT !.exists = FALSE] \in AgentRow
    BY DEF DeskTypeOK, AgentRow
  <2>2. \A c \in Chats : [conv[c] EXCEPT !.to = Nobody] \in ChatRow
    BY DEF DeskTypeOK, ChatRow, Takers
  <2>3. conv' \in [Chats -> ChatRow]
    BY <1>2, <2>2 DEF DeleteAgent, DeskTypeOK
  <2>4. QED
    BY <1>2, <2>1, <2>3, ChangeAgentTyped DEF DeleteAgent, DeskTypeOK
<1>3. QED
  BY <1>1, <1>2

LEMMA SendTyped ==
  ASSUME DeskTypeOK, NEW r \in Sends,
         \/ CheckKey(r) \/ TakeOverFails(r) \/ Dispatch(r) \/ SaveKey(r) \/ SaveFails(r)
         \/ \E c \in Chats, a \in Takers : TakeOver(r, c, a)
  PROVE  DeskTypeOK'
<1>1. CASE CheckKey(r)
  BY <1>1 DEF CheckKey, Progress, DeskTypeOK
<1>2. ASSUME NEW c \in Chats, NEW a \in Takers, TakeOver(r, c, a) PROVE DeskTypeOK'
  BY <1>2, TakenByTyped DEF TakeOver, Progress, DeskTypeOK
<1>3. CASE TakeOverFails(r)
  BY <1>3 DEF TakeOverFails, Progress, DeskTypeOK
<1>4. CASE Dispatch(r)
  BY <1>4 DEF Dispatch, Progress, DeskTypeOK
<1>5. CASE SaveKey(r)
  BY <1>5 DEF SaveKey, Progress, DeskTypeOK
<1>6. CASE SaveFails(r)
  BY <1>6 DEF SaveFails, Progress, DeskTypeOK
<1>7. QED
  BY <1>1, <1>2, <1>3, <1>4, <1>5, <1>6

LEMMA DeskStepTyped ==
  DeskTypeOK /\ [DeskNext]_deskVars => DeskTypeOK'
<1> SUFFICES ASSUME DeskTypeOK, [DeskNext]_deskVars PROVE DeskTypeOK'
  OBVIOUS
<1>1. CASE RoutingNext(Chats)
  <2>1. ASSUME NEW d \in Desks, Assign(d) \/ AssignFails(d) PROVE DeskTypeOK'
    <3>1. PICK x : x \in picked[d]
      BY <2>1 DEF Assign, AssignFails
    <3>2. x.chat \in Chats
      BY <3>1 DEF DeskTypeOK, Choice
    <3>3. QED
      BY <2>1, <3>2, RoutingTyped
  <2>2. ASSUME NEW c \in Chats, Resolve(c) \/ MarkUnassigned(c) PROVE DeskTypeOK'
    BY <2>2, RowTyped
  <2>3. ASSUME NEW d \in Desks, NEW c \in Chats, SelectAgent(d, c) PROVE DeskTypeOK'
    BY <2>3, RoutingTyped
  <2>4. QED
    BY <1>1, <2>1, <2>2, <2>3, AgentTyped DEF RoutingNext
<1>2. CASE MuteNext(Chats)
  BY <1>2, RowTyped DEF MuteNext
<1>3. CASE SendingNext(Chats)
  BY <1>3, SendTyped DEF SendingNext
<1>4. CASE UNCHANGED deskVars
  BY <1>4 DEF deskVars, DeskTypeOK
<1>5. QED
  BY <1>1, <1>2, <1>3, <1>4 DEF DeskNext

-----------------------------------------------------------------------------
(* The load of agents                                                      *)

LEMMA PeakKept ==
  DeskTypeOK /\ PeakInv /\ [DeskNext]_deskVars => PeakInv'
<1> SUFFICES ASSUME DeskTypeOK, PeakInv, [DeskNext]_deskVars PROVE PeakInv'
  OBVIOUS
<1>1. ASSUME NEW a \in Agents, NEW row \in AgentRow, ChangeAgent(a, row) PROVE PeakInv'
  BY <1>1 DEF ChangeAgent, PeakInv, DeskTypeOK, AgentRow
<1>2. ASSUME NEW a \in Agents, NEW active \in BOOLEAN, NEW max \in Capacities,
             UpdateAgent(a, active, max)
      PROVE  PeakInv'
  BY <1>1, <1>2, DeskAssumption DEF UpdateAgent, AgentRow
<1>3. ASSUME NEW a \in Agents, DeleteAgent(a) PROVE PeakInv'
  <2>1. [agent[a] EXCEPT !.exists = FALSE] \in AgentRow
    BY DEF DeskTypeOK, AgentRow
  <2>2. QED
    BY <1>1, <1>3, <2>1 DEF DeleteAgent
<1>4. CASE UNCHANGED <<agent, peak>>
  BY <1>4 DEF PeakInv
<1>5. CASE RoutingNext(Chats)
  BY <1>2, <1>3, <1>4, <1>5 DEF RoutingNext, SelectAgent, Assign, AssignFails, Resolve,
     MarkUnassigned, ChangeChat
<1>6. CASE MuteNext(Chats)
  BY <1>4, <1>6 DEF MuteNext, Escalate, SetBotMode, ChangeChat
<1>7. CASE SendingNext(Chats)
  BY <1>4, <1>7 DEF SendingNext, CheckKey, TakeOver, TakenBy, ChangeChat, TakeOverFails,
     Dispatch, SaveKey, SaveFails
<1>8. QED
  BY <1>4, <1>5, <1>6, <1>7 DEF DeskNext, deskVars

LEMMA LoadFalls ==
  ASSUME NEW a \in Agents, DeskTypeOK, DeskTypeOK', Bounded(a),
         RoutedTo(a)' \subseteq RoutedTo(a), PickedFor(a)' \subseteq PickedFor(a),
         peak[a] <= peak'[a]
  PROVE  Bounded(a)'
<1>1. RoutedTo(a) \subseteq Chats /\ PickedFor(a) \subseteq Desks
  BY DEF RoutedTo, ChatsOf, PickedFor
<1>2. /\ IsFiniteSet(RoutedTo(a)) /\ Cardinality(RoutedTo(a)) \in Nat
      /\ IsFiniteSet(PickedFor(a)) /\ Cardinality(PickedFor(a)) \in Nat
  BY <1>1, ChatsCounted, PickedCounted
<1>3. /\ Cardinality(RoutedTo(a)') \in Nat
      /\ Cardinality(RoutedTo(a)') <= Cardinality(RoutedTo(a))
  BY <1>2, FS_Subset, FS_CardinalityType
<1>4. /\ Cardinality(PickedFor(a)') \in Nat
      /\ Cardinality(PickedFor(a)') <= Cardinality(PickedFor(a))
  BY <1>2, FS_Subset, FS_CardinalityType
<1>5. peak[a] \in Nat /\ peak'[a] \in Nat /\ Cardinality(Desks) \in Nat
  BY DesksCounted DEF DeskTypeOK
<1>6. QED
  BY <1>2, <1>3, <1>4, <1>5 DEF Bounded

(* A write to a chat that does not route it to anybody.                    *)
LEMMA RowKeepsLoad ==
  ASSUME DeskTypeOK, DeskTypeOK', LoadInv, NEW c \in Chats, NEW row, NEW hands,
         ChangeChat(c, row, hands), hands \subseteq routed,
         c \in hands /\ row.status = "assigned" =>
             conv[c].status = "assigned" /\ conv[c].to = row.to
  PROVE  LoadInv'
<1> SUFFICES ASSUME NEW a \in Agents PROVE Bounded(a)'
  BY DEF LoadInv
<1>1. RoutedTo(a)' \subseteq RoutedTo(a)
  BY DEF RoutedTo, ChatsOf, ChangeChat, DeskTypeOK
<1>2. PickedFor(a)' = PickedFor(a) /\ peak' = peak
  BY DEF PickedFor, ChangeChat
<1>3. peak[a] <= peak'[a] /\ Bounded(a)
  BY <1>2 DEF DeskTypeOK, LoadInv
<1>4. QED
  BY <1>1, <1>2, <1>3, LoadFalls

LEMMA RowsKeepLoad ==
  ASSUME DeskTypeOK, DeskTypeOK', LoadInv, NEW c \in Chats,
         \/ Resolve(c) \/ MarkUnassigned(c) \/ Escalate(c)
         \/ \E muted \in BOOLEAN : SetBotMode(c, muted)
         \/ \E a \in Takers : TakenBy(c, a)
  PROVE  LoadInv'
<1>1. conv[c] \in ChatRow
  BY DEF DeskTypeOK
<1>2. CASE Resolve(c)
  BY <1>1, <1>2, RowKeepsLoad DEF Resolve, ChatRow
<1>3. CASE MarkUnassigned(c)
  BY <1>1, <1>3, RowKeepsLoad DEF MarkUnassigned, ChatRow
<1>4. CASE Escalate(c)
  BY <1>1, <1>4, RowKeepsLoad DEF Escalate, ChatRow
<1>5. ASSUME NEW muted \in BOOLEAN, SetBotMode(c, muted) PROVE LoadInv'
  BY <1>1, <1>5, RowKeepsLoad DEF SetBotMode, ChatRow
<1>6. ASSUME NEW a \in Takers, TakenBy(c, a) PROVE LoadInv'
  <2>1. CASE a = Nobody
    BY <1>1, <1>6, <2>1, RowKeepsLoad DEF TakenBy, ChatRow
  <2>2. CASE a # Nobody
    BY <1>6, <2>2, RowKeepsLoad DEF TakenBy
  <2>3. QED
    BY <2>1, <2>2
<1>7. QED
  BY <1>2, <1>3, <1>4, <1>5, <1>6

(* Whoever is selected has room, and the processes that select at the same *)
(* time are at most all of them.                                           *)
LEMMA SelectKeepsLoad ==
  ASSUME DeskTypeOK, DeskTypeOK', PeakInv, LoadInv,
         NEW d \in Desks, NEW c \in Chats, SelectAgent(d, c)
  PROVE  LoadInv'
<1> SUFFICES ASSUME NEW a \in Agents PROVE Bounded(a)'
  BY DEF LoadInv
<1>1. PICK b \in Takers : /\ b = Nobody \/ b \in Free
                         /\ picked' = [picked EXCEPT ![d] = {[chat |-> c, to |-> b]}]
  BY DEF SelectAgent
<1>2. RoutedTo(a)' = RoutedTo(a) /\ peak' = peak
  BY DEF SelectAgent, RoutedTo, ChatsOf
<1>3. CASE a # b
  <2>1. PickedFor(a)' \subseteq PickedFor(a)
    BY <1>1, <1>3 DEF PickedFor, DeskTypeOK
  <2>2. peak[a] <= peak'[a] /\ Bounded(a)
    BY <1>2 DEF DeskTypeOK, LoadInv
  <2>3. QED
    BY <1>2, <2>1, <2>2, LoadFalls
<1>4. CASE a = b
  <2>1. a \in Free
    BY <1>1, <1>4, DeskAssumption
  <2>2. RoutedTo(a) \subseteq ChatsOf(a) /\ ChatsOf(a) \subseteq Chats
    BY DEF RoutedTo, ChatsOf
  <2>3. /\ Cardinality(RoutedTo(a)) \in Nat /\ Cardinality(ChatsOf(a)) \in Nat
        /\ Cardinality(RoutedTo(a)) <= Cardinality(ChatsOf(a))
    BY <2>2, ChatsCounted, FS_Subset
  <2>4. Cardinality(ChatsOf(a)) < agent[a].max /\ agent[a].max <= peak[a]
    BY <2>1 DEF Free, Load, PeakInv
  <2>5. agent[a].max \in Nat /\ peak[a] \in Nat
    BY DEF DeskTypeOK, AgentRow
  <2>6. PickedFor(a)' \subseteq Desks
    BY DEF PickedFor
  <2>7. /\ Cardinality(PickedFor(a)') \in Nat
        /\ Cardinality(PickedFor(a)') <= Cardinality(Desks)
    BY <2>6, PickedCounted
  <2>8. QED
    BY <1>2, <2>3, <2>4, <2>5, <2>7, DesksCounted DEF Bounded
<1>5. QED
  BY <1>3, <1>4

(* The chat that is written takes the place of the process that brought it. *)
LEMMA AssignKeepsLoad ==
  ASSUME DeskTypeOK, DeskTypeOK', LoadInv, NEW d \in Desks, Assign(d)
  PROVE  LoadInv'
<1> SUFFICES ASSUME NEW a \in Agents PROVE Bounded(a)'
  BY DEF LoadInv
<1>1. PICK x \in picked[d] :
        IF x.to = Nobody
          THEN /\ conv' = [conv EXCEPT ![x.chat] =
                      [status |-> "unassigned", to |-> Nobody, muted |-> FALSE]]
               /\ routed' = routed \ {x.chat}
          ELSE /\ conv' = [conv EXCEPT ![x.chat].status = "assigned", ![x.chat].to = x.to]
               /\ routed' = routed \cup {x.chat}
  BY DEF Assign
<1>2. /\ x.chat \in Chats /\ conv[x.chat] \in ChatRow /\ peak' = peak
      /\ picked' = [picked EXCEPT ![d] = {}]
  BY DEF Assign, DeskTypeOK, Choice
<1>3. PickedFor(a)' = PickedFor(a) \ {d}
  BY <1>2 DEF PickedFor, DeskTypeOK
<1>4. Bounded(a) /\ peak[a] <= peak'[a]
  BY <1>2 DEF LoadInv, DeskTypeOK
<1>5. CASE x.to # a
  <2>1. RoutedTo(a)' \subseteq RoutedTo(a)
    BY <1>1, <1>2, <1>5 DEF RoutedTo, ChatsOf, DeskTypeOK, ChatRow
  <2>2. QED
    BY <1>3, <1>4, <2>1, LoadFalls
<1>6. CASE x.to = a
  <2>1. RoutedTo(a)' \subseteq RoutedTo(a) \cup {x.chat}
    <3>1. x.to # Nobody
      BY <1>6, DeskAssumption
    <3>2. \A k \in Chats : k # x.chat => conv'[k] = conv[k]
      BY <1>1, <1>2, <3>1 DEF DeskTypeOK
    <3>3. routed' = routed \cup {x.chat}
      BY <1>1, <3>1
    <3>4. QED
      BY <3>2, <3>3 DEF RoutedTo, ChatsOf
  <2>2. IsFiniteSet(RoutedTo(a)) /\ Cardinality(RoutedTo(a)) \in Nat
    BY ChatsCounted DEF RoutedTo, ChatsOf
  <2>3. /\ IsFiniteSet(RoutedTo(a) \cup {x.chat})
        /\ Cardinality(RoutedTo(a) \cup {x.chat}) <= Cardinality(RoutedTo(a)) + 1
        /\ Cardinality(RoutedTo(a) \cup {x.chat}) \in Nat
    BY <2>2, FS_AddElement, FS_CardinalityType
  <2>4. /\ Cardinality(RoutedTo(a)') <= Cardinality(RoutedTo(a)) + 1
        /\ Cardinality(RoutedTo(a)') \in Nat
    BY <2>1, <2>2, <2>3, FS_Subset, FS_CardinalityType
  <2>5. d \in PickedFor(a) /\ PickedFor(a) \subseteq Desks
    BY <1>1, <1>6 DEF PickedFor
  <2>6. /\ Cardinality(PickedFor(a) \ {d}) = Cardinality(PickedFor(a)) - 1
        /\ Cardinality(PickedFor(a)) \in Nat
    BY <2>5, PickedCounted, FS_RemoveElement
  <2>7. peak[a] \in Nat /\ Cardinality(Desks) \in Nat
    BY DesksCounted DEF DeskTypeOK
  <2>8. QED
    BY <1>2, <1>3, <1>4, <2>2, <2>4, <2>6, <2>7 DEF Bounded
<1>7. QED
  BY <1>5, <1>6

(* An agent that changes keeps its chats, one that is deleted loses them.  *)
LEMMA AgentKeepsLoad ==
  ASSUME DeskTypeOK, DeskTypeOK', LoadInv, NEW b \in Agents,
         \/ \E active \in BOOLEAN, max \in Capacities : UpdateAgent(b, active, max)
         \/ DeleteAgent(b)
  PROVE  LoadInv'
<1> SUFFICES ASSUME NEW a \in Agents PROVE Bounded(a)'
  BY DEF LoadInv
<1>1. PICK row : ChangeAgent(b, row)
  BY DEF UpdateAgent, DeleteAgent
<1>2. row.max \in Nat
  <2>1. CASE DeleteAgent(b)
    BY <2>1, <1>1 DEF DeleteAgent, ChangeAgent, DeskTypeOK, AgentRow
  <2>2. ASSUME NEW active \in BOOLEAN, NEW max \in Capacities, UpdateAgent(b, active, max)
        PROVE  row.max \in Nat
    BY <2>2, <1>1, DeskAssumption DEF UpdateAgent, ChangeAgent, DeskTypeOK
  <2>3. QED
    BY <2>1, <2>2
<1>3. peak[a] <= peak'[a] /\ Bounded(a)
  BY <1>1, <1>2 DEF ChangeAgent, DeskTypeOK, LoadInv
<1>4. PickedFor(a)' = PickedFor(a)
  BY <1>1 DEF ChangeAgent, PickedFor
<1>5. RoutedTo(a)' \subseteq RoutedTo(a)
  <2>1. CASE DeleteAgent(b)
    <3>1. \A c \in Chats : conv'[c] = IF conv[c].to = b THEN [conv[c] EXCEPT !.to = Nobody]
                                                       ELSE conv[c]
      BY <2>1 DEF DeleteAgent
    <3>2. \A c \in Chats : conv'[c].to = a => conv'[c] = conv[c]
      BY <3>1, DeskAssumption DEF DeskTypeOK, ChatRow
    <3>3. QED
      BY <2>1, <3>2 DEF RoutedTo, ChatsOf, DeleteAgent
  <2>2. CASE UNCHANGED <<conv, routed>>
    BY <2>2 DEF RoutedTo, ChatsOf
  <2>3. QED
    BY <2>1, <2>2 DEF UpdateAgent
<1>6. QED
  BY <1>3, <1>4, <1>5, LoadFalls

(* What leaves the chats alone and gives up selections.                    *)
LEMMA NoChatKeepsLoad ==
  ASSUME DeskTypeOK, DeskTypeOK', LoadInv, UNCHANGED <<conv, routed, peak>>,
         \A d \in Desks : picked'[d] \subseteq picked[d]
  PROVE  LoadInv'
<1> SUFFICES ASSUME NEW a \in Agents PROVE Bounded(a)'
  BY DEF LoadInv
<1>1. RoutedTo(a)' = RoutedTo(a) /\ PickedFor(a)' \subseteq PickedFor(a)
  BY DEF RoutedTo, ChatsOf, PickedFor
<1>2. peak[a] <= peak'[a] /\ Bounded(a)
  BY DEF DeskTypeOK, LoadInv
<1>3. QED
  BY <1>1, <1>2, LoadFalls

LEMMA LoadKept ==
  DeskTypeOK /\ DeskTypeOK' /\ PeakInv /\ LoadInv /\ [DeskNext]_deskVars => LoadInv'
<1> SUFFICES ASSUME DeskTypeOK, DeskTypeOK', PeakInv, LoadInv, [DeskNext]_deskVars PROVE LoadInv'
  OBVIOUS
<1>1. ASSUME UNCHANGED <<conv, routed, peak, picked>> PROVE LoadInv'
  BY <1>1, NoChatKeepsLoad
<1>2. CASE RoutingNext(Chats)
  <2>1. ASSUME NEW d \in Desks, AssignFails(d) PROVE LoadInv'
    BY <2>1, NoChatKeepsLoad DEF AssignFails, DeskTypeOK
  <2>2. ASSUME NEW d \in Desks, NEW c \in Chats, SelectAgent(d, c) PROVE LoadInv'
    BY <2>2, SelectKeepsLoad
  <2>3. ASSUME NEW d \in Desks, Assign(d) PROVE LoadInv'
    BY <2>3, AssignKeepsLoad
  <2>4. ASSUME NEW c \in Chats, Resolve(c) \/ MarkUnassigned(c) PROVE LoadInv'
    BY <2>4, RowsKeepLoad
  <2>5. QED
    BY <1>2, <2>1, <2>2, <2>3, <2>4, AgentKeepsLoad DEF RoutingNext
<1>3. CASE MuteNext(Chats)
  BY <1>3, RowsKeepLoad DEF MuteNext
<1>4. CASE SendingNext(Chats)
  <2>1. ASSUME NEW r \in Sends, NEW c \in Chats, NEW a \in Takers, TakeOver(r, c, a) PROVE LoadInv'
    BY <2>1, RowsKeepLoad DEF TakeOver
  <2>2. ASSUME NEW r \in Sends, \/ CheckKey(r) \/ TakeOverFails(r) \/ Dispatch(r)
                               \/ SaveKey(r) \/ SaveFails(r)
        PROVE  LoadInv'
    BY <2>2, <1>1 DEF CheckKey, TakeOverFails, Dispatch, SaveKey, SaveFails
  <2>3. QED
    BY <1>4, <2>1, <2>2 DEF SendingNext
<1>5. CASE UNCHANGED deskVars
  BY <1>1, <1>5 DEF deskVars
<1>6. QED
  BY <1>2, <1>3, <1>4, <1>5 DEF DeskNext

LEMMA DeskInitLoad ==
  DeskInit => PeakInv /\ LoadInv
<1> SUFFICES ASSUME DeskInit PROVE PeakInv /\ LoadInv
  OBVIOUS
<1>1. DeskTypeOK
  BY DeskInitTyped
<1>2. PeakInv
  BY <1>1 DEF DeskInit, PeakInv, DeskTypeOK, AgentRow
<1>3. ASSUME NEW a \in Agents PROVE Bounded(a)
  <2>1. RoutedTo(a) = {} /\ PickedFor(a) = {}
    BY DEF DeskInit, RoutedTo, PickedFor
  <2>2. peak[a] \in Nat
    BY <1>1 DEF DeskTypeOK
  <2>3. QED
    BY <2>1, <2>2, DesksCounted, FS_EmptySet DEF Bounded
<1>4. QED
  BY <1>2, <1>3 DEF LoadInv

-----------------------------------------------------------------------------
(* Requests with a key                                                     *)

LEMMA SavedKept ==
  DeskTypeOK /\ SavedInv /\ [DeskNext]_deskVars => SavedInv'
<1> SUFFICES ASSUME DeskTypeOK, SavedInv, [DeskNext]_deskVars PROVE SavedInv'
  OBVIOUS
<1>1. CASE UNCHANGED <<send, saved, asked>>
  BY <1>1 DEF SavedInv
<1>2. CASE RoutingNext(Chats) \/ MuteNext(Chats)
  BY <1>1, <1>2 DEF RoutingNext, MuteNext, SelectAgent, Assign, AssignFails, Resolve,
     MarkUnassigned, Escalate, SetBotMode, ChangeChat, UpdateAgent, DeleteAgent, ChangeAgent
<1>3. ASSUME NEW r \in Sends, CheckKey(r) PROVE SavedInv'
  <2>1. CASE asked' = asked
    BY <1>3, <2>1 DEF CheckKey, Progress, SavedInv, DeskTypeOK
  <2>2. CASE KeyOf[r] \notin saved /\ asked' = [asked EXCEPT ![r] = {s \in Sends : send[s] = "done"}]
    <3>1. saved' = saved /\ \A s \in Sends : send'[s] = "done" => send[s] = "done"
      BY <1>3 DEF CheckKey, Progress, DeskTypeOK
    <3>2. \A s \in asked'[r] : KeyOf[s] # KeyOf[r]
      BY <2>2 DEF SavedInv, DeskTypeOK
    <3>3. \A q \in Sends : q # r => asked'[q] = asked[q]
      BY <2>2 DEF DeskTypeOK
    <3>4. QED
      BY <3>1, <3>2, <3>3 DEF SavedInv
  <2>3. QED
    BY <1>3, <2>1, <2>2 DEF CheckKey
<1>4. ASSUME NEW r \in Sends, SaveKey(r) PROVE SavedInv'
  BY <1>4 DEF SaveKey, Progress, SavedInv, DeskTypeOK
<1>5. ASSUME NEW r \in Sends, NEW c \in Chats, NEW a \in Takers,
             TakeOver(r, c, a) \/ TakeOverFails(r) \/ Dispatch(r) \/ SaveFails(r)
      PROVE  SavedInv'
  BY <1>5 DEF TakeOver, TakenBy, ChangeChat, TakeOverFails, Dispatch, SaveFails, Progress,
     SavedInv, DeskTypeOK
<1>6. ASSUME NEW r \in Sends, TakeOverFails(r) \/ Dispatch(r) \/ SaveFails(r)
      PROVE  SavedInv'
  BY <1>6 DEF TakeOverFails, Dispatch, SaveFails, Progress, SavedInv, DeskTypeOK
<1>7. CASE SendingNext(Chats)
  BY <1>3, <1>4, <1>5, <1>6, <1>7 DEF SendingNext
<1>8. QED
  BY <1>1, <1>2, <1>7 DEF DeskNext, deskVars

-----------------------------------------------------------------------------
LEMMA DeskInvInductive ==
  /\ DeskInit => DeskInv
  /\ DeskInv /\ [DeskNext]_deskVars => DeskInv'
<1>1. ASSUME DeskInit PROVE SavedInv
  BY <1>1 DEF DeskInit, SavedInv
<1>2. QED
  BY <1>1, DeskInitTyped, DeskInitLoad, DeskStepTyped, PeakKept, LoadKept, SavedKept DEF DeskInv

LEMMA DeskInvInvariant ==
  DeskSpec => []DeskInv
<1>1. QED
  BY DeskInvInductive, PTL DEF DeskSpec

(* The variables keep their types, for every value of the constants.       *)
THEOREM DeskTypeCorrect == DeskSpec => []DeskTypeOK
<1>1. DeskInv => DeskTypeOK
  BY DEF DeskInv
<1>2. QED
  BY <1>1, DeskInvInvariant, PTL

(* assign_inbound_chat gives no agent more chats than its largest capacity *)
(* and one for each further process, for any number of processes, agents   *)
(* and chats, whatever agents take by hand and however capacities change.  *)
THEOREM LoadBounded == DeskSpec => []OverloadBounded
<1>1. ASSUME DeskTypeOK, LoadInv, NEW a \in Agents
      PROVE  Cardinality(RoutedTo(a)) <= peak[a] + Cardinality(Desks) - 1
  <2>1. Cardinality(RoutedTo(a)) \in Nat
    BY ChatsCounted DEF RoutedTo, ChatsOf
  <2>2. Cardinality(PickedFor(a)) \in Nat
    BY PickedCounted DEF PickedFor
  <2>3. QED
    BY <1>1, <2>1, <2>2, DesksCounted DEF LoadInv, Bounded, DeskTypeOK
<1>2. DeskInv => OverloadBounded
  BY <1>1 DEF DeskInv, OverloadBounded
<1>3. QED
  BY <1>2, DeskInvInvariant, PTL

(* A request of execute_send_cs_message that asked after its key was       *)
(* recorded, and could read the record, does not send the message again.   *)
THEOREM KeyProtects == DeskSpec => []ResentOnlyUnrecorded
<1>1. DeskInv => ResentOnlyUnrecorded
  BY DEF DeskInv, SavedInv, ResentOnlyUnrecorded
<1>2. QED
  BY <1>1, DeskInvInvariant, PTL

-----------------------------------------------------------------------------
(* The bot beside the desk                                                 *)

(* What a turn that has come this far has seen, or could not read.         *)
PastSession(t) == turn[t].at \in {"checked", "composing", "answered"}
PastRow(t)     == turn[t].at \in {"composing", "answered"}

SeenInv ==
    \A t \in Turns :
        /\ PastSession(t) => t \in sawSession \/ <<t, "session">> \in blind
        /\ PastRow(t) => t \in sawRow \/ <<t, "row">> \in blind

allVars == <<deskVars, holdVars>>

-----------------------------------------------------------------------------
(* The types                                                               *)

LEMMA TurnTyped ==
  ASSUME HoldTypeOK, NEW t \in Turns, turn[t].at \in Waiting
  PROVE  turn[t] \in Message
  BY DEF HoldTypeOK, New, Waiting

LEMMA GoesTyped ==
  ASSUME HoldTypeOK, NEW t \in Turns, turn[t].at \in Waiting,
         NEW to \in {"answered", "silent"} \cup Waiting, Goes(t, to)
  PROVE  turn' \in [Turns -> {New} \cup Message]
<1>1. [turn[t] EXCEPT !.at = to] \in Message
  BY TurnTyped DEF Message
<1>2. turn' = [turn EXCEPT ![t] = [turn[t] EXCEPT !.at = to]]
  BY DEF Goes
<1>3. QED
  BY <1>1, <1>2 DEF HoldTypeOK

LEMMA TurnStepTyped ==
  ASSUME HoldTypeOK, NEW t \in Turns, TurnStep(t, Chats)
  PROVE  /\ turn' \in [Turns -> {New} \cup Message]
         /\ session' \in [Chats -> [hold : {"absent", "open", "paused"}, until : {"none", "ahead", "past"}]]
         /\ cache' \in [Desks -> [Chats -> {"empty", "open", "paused"}]]
         /\ blind' \subseteq Turns \X {"session", "row"}
<1> DEFINE Typed ==
         /\ turn' \in [Turns -> {New} \cup Message]
         /\ session' \in [Chats -> [hold : {"absent", "open", "paused"}, until : {"none", "ahead", "past"}]]
         /\ cache' \in [Desks -> [Chats -> {"empty", "open", "paused"}]]
         /\ blind' \subseteq Turns \X {"session", "row"}
<1>1. ASSUME NEW d \in Desks, NEW c \in Chats, NEW text \in Texts, Arrives(t, d, c, text)
      PROVE  Typed
  <2>1. [at |-> "arrived", chat |-> c, desk |-> d, text |-> text] \in Message
    BY DEF Message, Waiting
  <2>2. QED
    BY <1>1, <2>1 DEF Arrives, HoldTypeOK
<1>2. CASE Ingress(t)
  <2>1. turn[t].at \in Waiting
    BY <1>2 DEF Ingress, At, Waiting
  <2>2. turn' \in [Turns -> {New} \cup Message]
    BY <1>2, <2>1, GoesTyped DEF Ingress, Waiting
  <2>3. turn[t].desk \in Desks /\ turn[t].chat \in Chats
    BY <2>1, TurnTyped DEF Message
  <2>4. ASSUME NEW what \in {"open", "paused"}, Remember(t, what)
        PROVE  cache' \in [Desks -> [Chats -> {"empty", "open", "paused"}]]
    <3> DEFINE row == [cache[turn[t].desk] EXCEPT ![turn[t].chat] = what]
    <3>1. row \in [Chats -> {"empty", "open", "paused"}]
      BY <2>3 DEF HoldTypeOK
    <3>2. cache' = [cache EXCEPT ![turn[t].desk] = row]
      BY <2>4 DEF Remember
    <3>3. QED
      BY <2>3, <3>1, <3>2 DEF HoldTypeOK
  <2>5. cache' = cache \/ \E what \in {"open", "paused"} : Remember(t, what)
    BY <1>2 DEF Ingress
  <2>6. QED
    BY <1>2, <2>2, <2>4, <2>5 DEF Ingress, HoldTypeOK
<1>3. CASE GuardSession(t)
  <2>1. turn[t].at \in Waiting
    BY <1>3 DEF GuardSession, At, Waiting
  <2>2. turn' \in [Turns -> {New} \cup Message]
    BY <1>3, <2>1, GoesTyped DEF GuardSession, Waiting
  <2>3. QED
    BY <1>3, <2>2 DEF GuardSession, HoldTypeOK
<1>4. CASE GuardAgain(t)
  <2>1. turn[t].at \in Waiting
    BY <1>4 DEF GuardAgain, At, Waiting
  <2>2. turn' \in [Turns -> {New} \cup Message]
    BY <1>4, <2>1, GoesTyped DEF GuardAgain, Waiting
  <2>3. QED
    BY <1>4, <2>2 DEF GuardAgain, Unread, HoldTypeOK
<1>5. CASE GuardRow(t)
  <2>1. turn[t].at \in Waiting
    BY <1>5 DEF GuardRow, At, Waiting
  <2>2. turn' \in [Turns -> {New} \cup Message]
    BY <1>5, <2>1, GoesTyped DEF GuardRow, Waiting
  <2>3. QED
    BY <1>5, <2>2 DEF GuardRow, Unread, HoldTypeOK
<1>6. CASE Answer(t)
  <2>1. turn[t].at \in Waiting
    BY <1>6 DEF Answer, At, Waiting
  <2>2. turn' \in [Turns -> {New} \cup Message]
    BY <1>6, <2>1, GoesTyped DEF Answer
  <2>3. QED
    BY <1>6, <2>2 DEF Answer, HoldTypeOK
<1>7. CASE WriteSession(t)
  <2>1. turn[t].at \in Waiting
    BY <1>7 DEF WriteSession, At, Waiting
  <2>2. turn' \in [Turns -> {New} \cup Message]
    BY <1>7, <2>1, GoesTyped DEF WriteSession, Waiting
  <2>3. turn[t].chat \in Chats
    BY <2>1, TurnTyped DEF Message
  <2>4. session' \in [Chats -> [hold : {"absent", "open", "paused"}, until : {"none", "ahead", "past"}]]
    BY <1>7, <2>3 DEF WriteSession, HoldTypeOK
  <2>5. QED
    BY <1>7, <2>2, <2>4 DEF WriteSession, HoldTypeOK
<1>8. CASE WriteRow(t)
  <2>1. turn[t].at \in Waiting
    BY <1>8 DEF WriteRow, At, Waiting
  <2>2. turn' \in [Turns -> {New} \cup Message]
    BY <1>8, <2>1, GoesTyped DEF WriteRow
  <2>3. QED
    BY <1>8, <2>2 DEF WriteRow, HoldTypeOK
<1>9. QED
  BY <1>1, <1>2, <1>3, <1>4, <1>5, <1>6, <1>7, <1>8 DEF TurnStep

LEMMA HoldInitTyped ==
  HoldInit => HoldTypeOK
  BY DEF HoldInit, HoldTypeOK

LEMMA HoldStepTyped ==
  HoldTypeOK /\ [HoldNext]_allVars => HoldTypeOK'
<1> SUFFICES ASSUME HoldTypeOK, [HoldNext]_allVars PROVE HoldTypeOK'
  OBVIOUS
<1>1. CASE UNCHANGED allVars
  BY <1>1 DEF allVars, holdVars, HoldTypeOK
<1>2. CASE HoldNext
  <2>1. sawSession' \subseteq Turns /\ sawRow' \subseteq Turns
    BY <1>2 DEF HoldNext, Witness, HoldTypeOK
  <2>2. CASE UNCHANGED <<session, cache, turn, blind>>
    BY <2>1, <2>2 DEF HoldTypeOK
  <2>3. ASSUME NEW t \in Turns, TurnStep(t, Chats) PROVE HoldTypeOK'
    BY <2>1, <2>3, TurnStepTyped DEF HoldTypeOK
  <2>4. ASSUME NEW d \in Desks, NEW c \in Chats, NEW hold \in {"open", "paused"},
               OwnerCommand(d, c, hold)
        PROVE  HoldTypeOK'
    BY <2>1, <2>4 DEF OwnerCommand, HoldTypeOK
  <2>5. ASSUME NEW c \in Chats, DeadlinePasses(c) PROVE HoldTypeOK'
    BY <2>1, <2>5 DEF DeadlinePasses, HoldTypeOK
  <2>6. ASSUME NEW d \in Desks, Restart(d) PROVE HoldTypeOK'
    <3>1. \A t \in Turns : turn[t].at \in Waiting => [turn[t] EXCEPT !.at = "silent"] \in Message
      BY TurnTyped DEF Message
    <3>2. turn' \in [Turns -> {New} \cup Message]
      BY <2>6, <3>1 DEF Restart, HoldTypeOK
    <3>3. QED
      BY <2>1, <2>6, <3>2 DEF Restart, HoldTypeOK
  <2>7. QED
    BY <1>2, <2>2, <2>3, <2>4, <2>5, <2>6 DEF HoldNext, HoldStep, DeskStep
<1>3. QED
  BY <1>1, <1>2

-----------------------------------------------------------------------------
(* The desk within the hold                                                *)

LEMMA HoldStepIsDeskStep ==
  HoldTypeOK /\ [HoldNext]_allVars => [DeskNext]_deskVars
<1> SUFFICES ASSUME HoldTypeOK, HoldNext PROVE [DeskNext]_deskVars
  BY DEF allVars
<1>1. ASSUME NEW t \in Turns, WriteRow(t) PROVE [DeskNext]_deskVars
  <2>1. turn[t].chat \in Chats
    BY <1>1, TurnTyped DEF WriteRow, At, Waiting, Message
  <2>2. QED
    BY <1>1, <2>1 DEF WriteRow, DeskNext, MuteNext
<1>2. QED
  BY <1>1 DEF HoldNext, HoldStep, DeskStep, TurnStep, WriteSession, OwnerCommand, DeadlinePasses,
     Restart

-----------------------------------------------------------------------------
(* What turns have seen                                                    *)

(* A turn that stays where it is, or gets no further than it was, has seen *)
(* no less.                                                                *)
LEMMA SeenStays ==
  ASSUME SeenInv, NEW t \in Turns, Witness, blind \subseteq blind',
         turn'[t].at = turn[t].at \/ turn'[t].at \in {"new", "arrived", "gated", "guarded", "row", "silent"}
  PROVE  /\ PastSession(t)' => t \in sawSession' \/ <<t, "session">> \in blind'
         /\ PastRow(t)' => t \in sawRow' \/ <<t, "row">> \in blind'
  BY DEF SeenInv, PastSession, PastRow, Witness

LEMMA SeenKept ==
  HoldTypeOK /\ SeenInv /\ [HoldNext]_allVars => SeenInv'
<1> SUFFICES ASSUME HoldTypeOK, SeenInv, [HoldNext]_allVars PROVE SeenInv'
  OBVIOUS
<1>1. CASE UNCHANGED allVars
  BY <1>1 DEF allVars, holdVars, SeenInv, PastSession, PastRow
<1>2. CASE HoldNext
  <2> SUFFICES ASSUME NEW t \in Turns
               PROVE  /\ PastSession(t)' => t \in sawSession' \/ <<t, "session">> \in blind'
                      /\ PastRow(t)' => t \in sawRow' \/ <<t, "row">> \in blind'
    BY DEF SeenInv
  <2>1. Witness
    BY <1>2 DEF HoldNext
  <2>2. CASE UNCHANGED <<turn, blind>>
    BY <2>1, <2>2, SeenStays
  <2>3. ASSUME NEW q \in Turns, q # t, TurnStep(q, Chats)
        PROVE  turn'[t] = turn[t] /\ blind \subseteq blind'
    BY <2>3 DEF TurnStep, WriteSession, WriteRow, Arrives, Ingress, GuardSession, GuardAgain,
       GuardRow, Answer, Goes, Unread, HoldTypeOK
  <2>4. ASSUME TurnStep(t, Chats)
        PROVE  /\ PastSession(t)' => t \in sawSession' \/ <<t, "session">> \in blind'
               /\ PastRow(t)' => t \in sawRow' \/ <<t, "row">> \in blind'
    <3>1. ASSUME NEW to, Goes(t, to) PROVE /\ turn'[t].at = to
                                           /\ turn[t] \in Message => turn'[t].chat = turn[t].chat
      BY <3>1 DEF Goes, HoldTypeOK, Message, New
    <3>2. CASE WriteSession(t) \/ WriteRow(t) \/ Ingress(t) \/ GuardSession(t)
      BY <2>1, <3>1, <3>2, SeenStays DEF WriteSession, WriteRow, Ingress, GuardSession
    <3>3. ASSUME NEW d \in Desks, NEW c \in Chats, NEW text \in Texts, Arrives(t, d, c, text)
          PROVE  turn'[t].at = "arrived" /\ blind' = blind
      BY <3>3 DEF Arrives, HoldTypeOK
    <3>4. CASE GuardAgain(t)
      <4>1. turn[t] \in Message
        BY <3>4, TurnTyped DEF GuardAgain, At, Waiting
      <4>2. CASE Goes(t, "silent") /\ UNCHANGED blind
        BY <2>1, <3>1, <4>2, SeenStays
      <4>3. CASE Unread(t, "session") /\ Goes(t, "checked")
        BY <3>1, <4>3 DEF Unread, PastSession, PastRow
      <4>4. CASE ~PausedUntil(session[turn[t].chat]) /\ Goes(t, "checked")
        <5>1. session' = session /\ turn'[t].at = "checked" /\ turn'[t].chat = turn[t].chat
          BY <3>1, <3>4, <4>1, <4>4 DEF GuardAgain
        <5>2. t \in sawSession'
          BY <2>1, <4>4, <5>1 DEF Witness, Waiting
        <5>3. QED
          BY <5>1, <5>2 DEF PastSession, PastRow
      <4>5. QED
        BY <3>4, <4>2, <4>3, <4>4 DEF GuardAgain
    <3>5. CASE GuardRow(t)
      <4>1. turn[t] \in Message /\ PastSession(t)
        BY <3>5, TurnTyped DEF GuardRow, At, Waiting, PastSession
      <4>2. CASE Goes(t, "silent") /\ UNCHANGED blind
        BY <2>1, <3>1, <4>2, SeenStays
      <4>3. t \in sawSession' \/ <<t, "session">> \in blind'
        BY <2>1, <3>5, <4>1 DEF SeenInv, Witness, GuardRow, Unread
      <4>4. CASE Unread(t, "row") /\ Goes(t, "composing")
        BY <4>3, <4>4 DEF Unread
      <4>5. CASE ~conv[turn[t].chat].muted /\ Goes(t, "composing")
        <5>1. conv' = conv /\ turn'[t].at = "composing" /\ turn'[t].chat = turn[t].chat
          BY <2>4, <3>1, <3>5, <4>1, <4>5 DEF TurnStep, deskVars, WriteSession, WriteRow, GuardRow, At
        <5>2. t \in sawRow'
          BY <2>1, <4>5, <5>1 DEF Witness, Waiting
        <5>3. QED
          BY <4>3, <5>2
      <4>6. QED
        BY <3>5, <4>2, <4>4, <4>5 DEF GuardRow
    <3>6. CASE Answer(t)
      <4>1. PastSession(t) /\ PastRow(t) /\ blind' = blind
        BY <3>6 DEF Answer, At, PastSession, PastRow
      <4>2. QED
        BY <2>1, <4>1 DEF SeenInv, Witness
    <3>7. QED
      BY <2>1, <2>4, <3>2, <3>3, <3>4, <3>5, <3>6, SeenStays DEF TurnStep
  <2>5. ASSUME NEW d \in Desks, Restart(d)
        PROVE  /\ blind' = blind
               /\ turn'[t].at = turn[t].at \/ turn'[t].at = "silent"
    BY <2>5, TurnTyped DEF Restart, HoldTypeOK, Message
  <2>6. CASE \E q \in Turns : TurnStep(q, Chats)
    BY <2>1, <2>3, <2>4, <2>6, SeenStays
  <2>7. CASE \E d \in Desks : Restart(d)
    BY <2>1, <2>5, <2>7, SeenStays
  <2>8. QED
    BY <1>2, <2>2, <2>6, <2>7 DEF HoldNext, HoldStep, DeskStep, OwnerCommand, DeadlinePasses
<1>3. QED
  BY <1>1, <1>2

-----------------------------------------------------------------------------
LEMMA HoldInvariant ==
  HoldSpec => [](HoldTypeOK /\ SeenInv)
<1>1. HoldInit => HoldTypeOK /\ SeenInv
  BY HoldInitTyped DEF HoldInit, SeenInv, PastSession, PastRow, New
<1>2. HoldTypeOK /\ SeenInv /\ [HoldNext]_allVars => (HoldTypeOK /\ SeenInv)'
  BY HoldStepTyped, SeenKept
<1>3. QED
  BY <1>1, <1>2, PTL DEF HoldSpec, allVars

(* The variables keep their types, for every value of the constants.       *)
THEOREM HoldTypeCorrect == HoldSpec => []HoldTypeOK
<1>1. QED
  BY HoldInvariant, PTL

(* Nothing that pauses, resumes or answers does to agents and chats what   *)
(* the desk alone could not do: what is proved of DeskSpec holds here.     *)
THEOREM HoldImplementsDesk == HoldSpec => DeskSpec
<1>1. HoldTypeOK /\ [HoldNext]_allVars => [DeskNext]_deskVars
  BY HoldStepIsDeskStep
<1>2. QED
  BY <1>1, HoldTypeCorrect, PTL DEF HoldSpec, DeskSpec, allVars

(* process_inbound_message answers a message only if the session and the   *)
(* row let the bot speak while it was handled, or could not be read, for   *)
(* any number of processes, chats and messages.                            *)
THEOREM BotKeepsSilent == HoldSpec => []AnswersOnlyWhenFree
<1>1. SeenInv => AnswersOnlyWhenFree
  BY DEF SeenInv, PastSession, PastRow, AnswersOnlyWhenFree
<1>2. QED
  BY <1>1, HoldInvariant, PTL
=============================================================================
