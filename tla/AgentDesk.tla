----------------------------- MODULE AgentDesk -----------------------------
(***************************************************************************)
(* app/services/rotary_routing_service.py and the endpoints of             *)
(* app/routes/inbox_routes.py: customer chats are given to the least busy  *)
(* agent, agents take them over by hand and write to the customer.         *)
(*                                                                         *)
(* The service is synchronous, so a server process routes one chat at a    *)
(* time; two processes interleave between the SELECT and the UPDATE, which *)
(* PostgreSQL (READ COMMITTED, no FOR UPDATE) does not keep apart.  All    *)
(* agents and chats are of one tenant.                                     *)
(***************************************************************************)
EXTENDS Naturals, FiniteSets

CONSTANTS
    Desks,          \* server processes
    Agents,         \* rows of cs_agents
    Chats,          \* rows of conversations
    Capacities,     \* values of max_active_chats
    Sends,          \* requests of POST /messages/send with an idempotency key
    KeyOf,          \* [Sends -> keys]: a retry carries the key of the first
    MaxEdits,       \* bound on changes to agents
    DeskFaults,     \* calls to PostgreSQL or to the channel may fail
    Nobody          \* NULL in assigned_agent_id

ASSUME DeskAssumption ==
    /\ IsFiniteSet(Desks) /\ Desks # {}
    /\ IsFiniteSet(Chats)
    /\ Capacities \subseteq Nat
    /\ MaxEdits \in Nat
    /\ DeskFaults \in BOOLEAN
    /\ Nobody \notin Agents

VARIABLES
    agent,          \* [Agents -> row]: exists, takes chats, max_active_chats
    conv,           \* [Chats -> row]: status, assigned_agent_id, muted
    picked,         \* [Desks -> SUBSET choice]: SELECTed, not yet UPDATEd
    send,           \* [Sends -> what the request has come to]
    saved,          \* keys with a COMPLETED row in inbox_idempotency_keys
    edits,          \* changes to agents so far
    peak,           \* history: [Agents -> largest max_active_chats so far]
    routed,         \* history: chats in the hands the router put them in
    asked           \* history: [Sends -> requests whose key was saved when it asked]

deskVars == <<agent, conv, picked, send, saved, edits, peak, routed, asked>>

Takers   == Agents \cup {Nobody}
AgentRow == [exists : BOOLEAN, active : BOOLEAN, max : Nat]
ChatRow  == [status : {"unassigned", "assigned", "resolved"}, to : Takers, muted : BOOLEAN]
Choice   == [chat : Chats, to : Takers]

(* active stands for presence = 'active' AND is_active, muted for          *)
(* bot_paused OR bot_mode = 'HUMAN_ACTIVE'; readers look at nothing else.  *)
DeskTypeOK ==
    /\ agent \in [Agents -> AgentRow]
    /\ conv \in [Chats -> ChatRow]
    /\ picked \in [Desks -> SUBSET Choice]
    /\ \A d \in Desks : \A x, y \in picked[d] : x = y
    /\ send \in [Sends -> {"new", "checked", "taken", "sent", "done", "cached", "unsent", "unsaved"}]
    /\ saved \subseteq {KeyOf[r] : r \in Sends}
    /\ edits \in 0..MaxEdits
    /\ peak \in [Agents -> Nat]
    /\ routed \subseteq Chats
    /\ asked \in [Sends -> SUBSET Sends]

DeskInit ==
    /\ agent \in [Agents -> {[exists |-> TRUE, active |-> TRUE, max |-> m] : m \in Capacities}]
    /\ conv = [c \in Chats |-> [status |-> "unassigned", to |-> Nobody, muted |-> FALSE]]
    /\ picked = [d \in Desks |-> {}]
    /\ send = [r \in Sends |-> "new"]
    /\ saved = {}
    /\ edits = 0
    /\ peak = [a \in Agents |-> agent[a].max]
    /\ routed = {}
    /\ asked = [r \in Sends |-> {}]

-----------------------------------------------------------------------------
(* Routing: assign_inbound_chat                                            *)

(* COUNT(c.id) FILTER (WHERE c.status = 'assigned')                        *)
ChatsOf(a) == {c \in Chats : conv[c].status = "assigned" /\ conv[c].to = a}
Load(a)    == Cardinality(ChatsOf(a))

(* Mutant: an agent is full one chat late.                                 *)
FreeOrFull == {a \in Agents : agent[a].exists /\ agent[a].active /\ Load(a) <= agent[a].max}

(* presence = 'active' AND is_active HAVING load < max_active_chats        *)
Free == {a \in Agents : agent[a].exists /\ agent[a].active /\ Load(a) < agent[a].max}

(* The SELECT: one agent with the least load, if there is one.  Ties go by *)
(* updated_at and id, here to any of them.                                 *)
SelectAgent(d, c) ==
    /\ picked[d] = {}
    /\ \E a \in Takers :
          /\ IF Free = {} THEN a = Nobody
                          ELSE a \in Free /\ \A b \in Free : Load(a) <= Load(b)
          /\ picked' = [picked EXCEPT ![d] = {[chat |-> c, to |-> a]}]
    /\ UNCHANGED <<agent, conv, send, saved, edits, peak, routed, asked>>

(* The UPDATE, which looks at nothing but the id of the chat.  For an      *)
(* agent that was deleted meanwhile the foreign key refuses it; with no    *)
(* agent the chat goes back to the bot, whoever has it now.                *)
Assign(d) ==
    /\ \E x \in picked[d] :
          IF x.to = Nobody
            THEN /\ conv' = [conv EXCEPT ![x.chat] =
                        [status |-> "unassigned", to |-> Nobody, muted |-> FALSE]]
                 /\ routed' = routed \ {x.chat}
            ELSE /\ agent[x.to].exists
                 /\ conv' = [conv EXCEPT ![x.chat].status = "assigned", ![x.chat].to = x.to]
                 /\ routed' = routed \cup {x.chat}
    /\ picked' = [picked EXCEPT ![d] = {}]
    /\ UNCHANGED <<agent, send, saved, edits, peak, asked>>

(* The UPDATE fails or the process dies: the SELECT changed nothing.       *)
AssignFails(d) ==
    /\ \E x \in picked[d] : DeskFaults \/ (x.to \in Agents /\ ~agent[x.to].exists)
    /\ picked' = [picked EXCEPT ![d] = {}]
    /\ UNCHANGED <<agent, conv, send, saved, edits, peak, routed, asked>>

-----------------------------------------------------------------------------
(* Writes to a chat's row                                                  *)

ChangeChat(c, row, hands) ==
    /\ conv' = [conv EXCEPT ![c] = row]
    /\ routed' = hands
    /\ UNCHANGED <<agent, picked, saved, edits, peak, asked>>

(* set_human_takeover: the capacity of the agent is not looked at.         *)
TakenBy(c, a) ==
    IF a = Nobody
      THEN ChangeChat(c, [conv[c] EXCEPT !.muted = TRUE], routed)
      ELSE /\ agent[a].exists
           /\ ChangeChat(c, [status |-> "assigned", to |-> a, muted |-> TRUE], routed \ {c})

(* set_bot_mode, and the row half of the texts "pause" and "resume".       *)
SetBotMode(c, muted) ==
    ChangeChat(c, [conv[c] EXCEPT !.muted = muted], routed) /\ UNCHANGED send

(* resolve_conversation keeps the agent of the chat.                       *)
Resolve(c) ==
    /\ ChangeChat(c, [conv[c] EXCEPT !.status = "resolved", !.muted = FALSE], routed)
    /\ UNCHANGED send

(* ensure_conversation_and_mark_unassigned keeps the mute of the chat.     *)
MarkUnassigned(c) ==
    /\ ChangeChat(c, [conv[c] EXCEPT !.status = "unassigned", !.to = Nobody], routed \ {c})
    /\ UNCHANGED send

(* The row half of a customer's request for a human: the agent is kept.    *)
Escalate(c) ==
    /\ ChangeChat(c, [conv[c] EXCEPT !.status = "unassigned", !.muted = TRUE], routed)
    /\ UNCHANGED send

-----------------------------------------------------------------------------
(* Changes to agents                                                       *)

ChangeAgent(a, row) ==
    /\ agent[a].exists /\ edits < MaxEdits
    /\ row # agent[a]
    /\ agent' = [agent EXCEPT ![a] = row]
    /\ peak' = [peak EXCEPT ![a] = IF row.max > @ THEN row.max ELSE @]
    /\ edits' = edits + 1
    /\ UNCHANGED <<picked, send, saved, asked>>

(* update_agent, update_agent_presence, and delete_agent without           *)
(* hard_delete: presence, is_active and max_active_chats.  The agent keeps *)
(* its chats.                                                              *)
UpdateAgent(a, active, max) ==
    /\ ChangeAgent(a, [exists |-> TRUE, active |-> active, max |-> max])
    /\ UNCHANGED <<conv, routed>>

(* delete_agent with hard_delete: ON DELETE SET NULL clears the agent of   *)
(* its chats, whose status stays.                                          *)
DeleteAgent(a) ==
    /\ ChangeAgent(a, [agent[a] EXCEPT !.exists = FALSE])
    /\ conv' = [c \in Chats |-> IF conv[c].to = a THEN [conv[c] EXCEPT !.to = Nobody] ELSE conv[c]]
    /\ UNCHANGED routed

-----------------------------------------------------------------------------
(* Messages of agents: execute_send_cs_message                             *)

Progress(r, from, to) == send[r] = from /\ send' = [send EXCEPT ![r] = to]

(* get_idempotency_record: a COMPLETED row is the answer, and no row, or   *)
(* an error, lets the request pass.  Nothing ever writes PROCESSING.       *)
CheckKey(r) ==
    /\ \/ KeyOf[r] \in saved /\ Progress(r, "new", "cached") /\ UNCHANGED asked
       \/ /\ KeyOf[r] \notin saved
          /\ Progress(r, "new", "checked")
          /\ asked' = [asked EXCEPT ![r] = {s \in Sends : send[s] = "done"}]
       \/ DeskFaults /\ Progress(r, "new", "checked") /\ UNCHANGED asked
    /\ UNCHANGED <<agent, conv, picked, saved, edits, peak, routed>>

(* The agent takes the chat before the message leaves.                     *)
TakeOver(r, c, a) == Progress(r, "checked", "taken") /\ TakenBy(c, a)

(* It raises for an agent that was deleted, and nothing is sent.           *)
TakeOverFails(r) ==
    /\ Progress(r, "checked", "unsent")
    /\ DeskFaults \/ \E a \in Agents : ~agent[a].exists
    /\ UNCHANGED <<agent, conv, picked, saved, edits, peak, routed, asked>>

(* log_to_supabase_messages and dispatch_locked_message are awaited.       *)
Dispatch(r) ==
    /\ \/ Progress(r, "taken", "sent")
       \/ DeskFaults /\ Progress(r, "taken", "unsent")
    /\ UNCHANGED <<agent, conv, picked, saved, edits, peak, routed, asked>>

(* Mutant: the record is written with a status no request looks for.       *)
SaveKeyAsPending(r) ==
    /\ Progress(r, "sent", "done")
    /\ UNCHANGED <<agent, conv, picked, saved, edits, peak, routed, asked>>

(* save_idempotency_record, whose errors are swallowed.                    *)
SaveKey(r) ==
    /\ Progress(r, "sent", "done")
    /\ saved' = saved \cup {KeyOf[r]}
    /\ UNCHANGED <<agent, conv, picked, edits, peak, routed, asked>>

SaveFails(r) ==
    /\ DeskFaults
    /\ Progress(r, "sent", "unsaved")
    /\ UNCHANGED <<agent, conv, picked, saved, edits, peak, routed, asked>>

-----------------------------------------------------------------------------
RoutingNext(chats) ==
    \/ \E d \in Desks : (\E c \in chats : SelectAgent(d, c)) \/ Assign(d) \/ AssignFails(d)
    \/ \E c \in chats : Resolve(c) \/ MarkUnassigned(c)
    \/ \E a \in Agents :
          \/ \E active \in BOOLEAN, max \in Capacities : UpdateAgent(a, active, max)
          \/ DeleteAgent(a)

MuteNext(chats) == \E c \in chats : Escalate(c) \/ \E muted \in BOOLEAN : SetBotMode(c, muted)

SendingNext(chats) ==
    \E r \in Sends :
        \/ CheckKey(r) \/ TakeOverFails(r) \/ Dispatch(r) \/ SaveKey(r) \/ SaveFails(r)
        \/ \E c \in chats, a \in Takers : TakeOver(r, c, a)

DeskNext == RoutingNext(Chats) \/ MuteNext(Chats) \/ SendingNext(Chats)

DeskSpec == DeskInit /\ [][DeskNext]_deskVars

-----------------------------------------------------------------------------
(* What the desk must get right                                            *)

(* No agent is given more chats by the router than the largest number it   *)
(* was ever to have, and one more for each server process beyond the       *)
(* first: SELECT and UPDATE of assign_inbound_chat are not one step, but a *)
(* process has one of them under way.                                      *)
RoutedTo(a) == ChatsOf(a) \cap routed

OverloadBounded ==
    \A a \in Agents : Cardinality(RoutedTo(a)) <= peak[a] + Cardinality(Desks) - 1

(* A message of an agent leaves again for a request with the same          *)
(* idempotency key only if the first was not recorded yet when the second  *)
(* asked, or one of them met an error of the database.                     *)
Left(r) == send[r] \in {"sent", "done", "unsaved"}

ResentOnlyUnrecorded ==
    \A r \in Sends : Left(r) => \A s \in asked[r] : KeyOf[s] # KeyOf[r]
=============================================================================
