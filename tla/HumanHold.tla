----------------------------- MODULE HumanHold -----------------------------
(***************************************************************************)
(* While a human has a conversation the bot keeps silent: the pause in     *)
(* conversation_sessions with its deadline, the copy of it that every      *)
(* server process keeps (app/services/ingress_pipeline.py), the mute in    *)
(* the row of the conversation (AgentDesk), and the turns of the bot,      *)
(* process_inbound_message of app/routes/whatsapp_gateway_routes.py, for   *)
(* direct messages to a merchant's number.  Supabase and PostgreSQL are    *)
(* one database here.                                                      *)
(***************************************************************************)
EXTENDS AgentDesk

CONSTANTS
    Turns,          \* messages of customers
    HoldFaults      \* reads and writes of the two tables may fail

ASSUME HoldAssumption == HoldFaults \in BOOLEAN

VARIABLES
    session,        \* [Chats -> row of conversation_sessions]
    cache,          \* [Desks -> [Chats -> _session_paused_cache]]
    turn,           \* [Turns -> what has become of the message]
    sawSession,     \* history: turns during which the session let the bot speak
    sawRow,         \* history: turns during which the row let the bot speak
    blind           \* history: turns and what could not be read for them

holdVars == <<session, cache, turn, sawSession, sawRow, blind>>

Texts   == {"chat", "pause", "resume", "human"}
Waiting == {"arrived", "gated", "guarded", "checked", "composing", "row"}
New     == [at |-> "new"]
Message == [at : {"answered", "silent"} \cup Waiting, chat : Chats, desk : Desks, text : Texts]

(* until is paused_until: not set, in the future, or in the past.          *)
HoldTypeOK ==
    /\ session \in [Chats -> [hold : {"absent", "open", "paused"}, until : {"none", "ahead", "past"}]]
    /\ cache \in [Desks -> [Chats -> {"empty", "open", "paused"}]]
    /\ turn \in [Turns -> {New} \cup Message]
    /\ sawSession \subseteq Turns /\ sawRow \subseteq Turns
    /\ blind \subseteq Turns \X {"session", "row"}

HoldInit ==
    /\ session = [c \in Chats |-> [hold |-> "absent", until |-> "none"]]
    /\ cache = [d \in Desks |-> [c \in Chats |-> "empty"]]
    /\ turn = [t \in Turns |-> New]
    /\ sawSession = {} /\ sawRow = {} /\ blind = {}

-----------------------------------------------------------------------------
(* What the guards read                                                    *)

(* The pause as the guard of the gateway reads it, until its deadline, and *)
(* as the ingress pipeline reads it, which knows no deadline.              *)
PausedUntil(row) == row.hold = "paused" /\ row.until # "past"
PausedEver(row)  == row.hold = "paused"

At(t, from)    == turn[t].at = from
Goes(t, to)    == turn' = [turn EXCEPT ![t].at = to]
Unread(t, what) == HoldFaults /\ blind' = blind \cup {<<t, what>>}

Arrives(t, d, c, text) ==
    /\ At(t, "new")
    /\ turn' = [turn EXCEPT ![t] = [at |-> "arrived", chat |-> c, desk |-> d, text |-> text]]
    /\ UNCHANGED <<session, cache, blind>>

(* Layer 5, is_session_paused: what the process remembers, or else the     *)
(* session, which it then remembers for good.  A missing row and an error  *)
(* count as open and are not remembered.                                   *)
Remembered(t) == cache[turn[t].desk][turn[t].chat]

Remember(t, what) == cache' = [cache EXCEPT ![turn[t].desk][turn[t].chat] = what]

Ingress(t) ==
    LET row == session[turn[t].chat] IN
    /\ At(t, "arrived")
    /\ \/ Remembered(t) = "paused" /\ Goes(t, "silent") /\ UNCHANGED cache
       \/ Remembered(t) = "open" /\ Goes(t, "gated") /\ UNCHANGED cache
       \/ /\ Remembered(t) = "empty"
          /\ \/ row.hold = "absent" /\ Goes(t, "gated") /\ UNCHANGED cache
             \/ PausedEver(row) /\ Goes(t, "silent") /\ Remember(t, "paused")
             \/ row.hold = "open" /\ Goes(t, "gated") /\ Remember(t, "open")
             \/ HoldFaults /\ Goes(t, "gated") /\ UNCHANGED cache
    /\ UNCHANGED <<session, blind>>

(* The guard of check_and_handle_session_handover_and_toggle looks at the  *)
(* session, and with an error goes on.                                     *)
GuardSession(t) ==
    /\ At(t, "gated") /\ turn[t].text = "chat"
    /\ \/ PausedUntil(session[turn[t].chat]) /\ Goes(t, "silent")
       \/ ~PausedUntil(session[turn[t].chat]) /\ Goes(t, "guarded")
       \/ HoldFaults /\ Goes(t, "guarded")
    /\ UNCHANGED <<session, cache, blind>>

(* Mutant: a chat that is assigned is taken for one in human hands.        *)
GuardStatus(t) ==
    LET muted == conv[turn[t].chat].status = "assigned" IN
    /\ At(t, "checked")
    /\ \/ muted /\ Goes(t, "silent") /\ UNCHANGED blind
       \/ ~muted /\ Goes(t, "composing") /\ UNCHANGED blind
       \/ Unread(t, "row") /\ Goes(t, "composing")
    /\ UNCHANGED <<session, cache>>

(* is_bot_paused_for_phone looks at the session again, and then at the     *)
(* row, both past errors.                                                  *)
GuardAgain(t) ==
    LET held == PausedUntil(session[turn[t].chat]) IN
    /\ At(t, "guarded")
    /\ \/ held /\ Goes(t, "silent") /\ UNCHANGED blind
       \/ ~held /\ Goes(t, "checked") /\ UNCHANGED blind
       \/ Unread(t, "session") /\ Goes(t, "checked")
    /\ UNCHANGED <<session, cache>>

GuardRow(t) ==
    LET muted == conv[turn[t].chat].muted IN
    /\ At(t, "checked")
    /\ \/ muted /\ Goes(t, "silent") /\ UNCHANGED blind
       \/ ~muted /\ Goes(t, "composing") /\ UNCHANGED blind
       \/ Unread(t, "row") /\ Goes(t, "composing")
    /\ UNCHANGED <<session, cache>>

(* The answer is composed with many awaits, and nothing is read again: the *)
(* later checks of the pause are skipped for direct messages.              *)
Answer(t) == At(t, "composing") /\ Goes(t, "answered") /\ UNCHANGED <<session, cache, blind>>

-----------------------------------------------------------------------------
(* Commands                                                                *)

(* "pause", "resume" and a wish for a human, written by the customer: the  *)
(* session and, if that worked, the row.  An error ends both silently, and *)
(* no process's memory is told.                                            *)
WriteSession(t) ==
    /\ At(t, "gated") /\ turn[t].text # "chat"
    /\ \/ /\ session' = [session EXCEPT ![turn[t].chat] =
                IF turn[t].text = "resume" THEN [hold |-> "open", until |-> "none"]
                                           ELSE [hold |-> "paused", until |-> "ahead"]]
          /\ Goes(t, "row")
       \/ HoldFaults /\ Goes(t, "silent") /\ UNCHANGED session
    /\ UNCHANGED <<cache, blind, deskVars>>

WriteRow(t) ==
    /\ At(t, "row")
    /\ Goes(t, "silent")
    /\ LET c == turn[t].chat IN
       \/ turn[t].text = "human" /\ Escalate(c)
       \/ turn[t].text = "pause" /\ SetBotMode(c, TRUE)
       \/ turn[t].text = "resume" /\ SetBotMode(c, FALSE)
       \/ HoldFaults /\ UNCHANGED deskVars
    /\ UNCHANGED <<session, cache, blind>>

(* !pause and !resume of an owner, set_session_paused: the memory of the   *)
(* process that takes the message and the session, whose deadline stays as *)
(* it is.  The row is not touched.                                         *)
OwnerCommand(d, c, hold) ==
    /\ cache' = [cache EXCEPT ![d][c] = hold]
    /\ \/ session' = [session EXCEPT ![c].hold = hold]
       \/ HoldFaults /\ UNCHANGED session
    /\ UNCHANGED <<turn, blind, deskVars>>

(* The deadline passes.  Nothing wakes up for it.                          *)
DeadlinePasses(c) ==
    /\ session[c].until = "ahead"
    /\ session' = [session EXCEPT ![c].until = "past"]
    /\ UNCHANGED <<cache, turn, blind, deskVars>>

(* The process is started again: its memory is empty.                      *)
Restart(d) ==
    /\ cache' = [cache EXCEPT ![d] = [c \in Chats |-> "empty"]]
    /\ turn' = [t \in Turns |-> IF turn[t].at \in Waiting /\ turn[t].desk = d
                                  THEN [turn[t] EXCEPT !.at = "silent"] ELSE turn[t]]
    /\ UNCHANGED <<session, blind, deskVars>>

-----------------------------------------------------------------------------
(* Every step shows the turns that are under way what the session and the  *)
(* row say after it.                                                       *)
Witness ==
    LET under == {t \in Turns : turn'[t].at \in Waiting} IN
    /\ sawSession' = sawSession \cup {t \in under : ~PausedUntil(session'[turn'[t].chat])}
    /\ sawRow' = sawRow \cup {t \in under : ~conv'[turn'[t].chat].muted}

TurnStep(t, chats) ==
    \/ WriteSession(t) \/ WriteRow(t)
    \/ /\ \/ \E d \in Desks, c \in chats, text \in Texts : Arrives(t, d, c, text)
          \/ Ingress(t) \/ GuardSession(t) \/ GuardAgain(t) \/ GuardRow(t) \/ Answer(t)
       /\ UNCHANGED deskVars

HoldStep(chats) ==
    \/ \E t \in Turns : TurnStep(t, chats)
    \/ \E d \in Desks, c \in chats, hold \in {"open", "paused"} : OwnerCommand(d, c, hold)
    \/ \E c \in chats : DeadlinePasses(c)
    \/ \E d \in Desks : Restart(d)

DeskStep == DeskNext /\ UNCHANGED <<session, cache, turn, blind>>

HoldNext == (HoldStep(Chats) \/ DeskStep) /\ Witness

HoldSpec == DeskInit /\ HoldInit /\ [][HoldNext]_<<deskVars, holdVars>>

-----------------------------------------------------------------------------
(* What the hold must get right                                            *)

(* The bot answers a message only if, at some time since the message came, *)
(* the session and the row both let it speak, though not at one time, or   *)
(* one of its reads failed: whatever the processes remember, and whoever   *)
(* pauses, takes over, routes or resolves meanwhile.                       *)
AnswersOnlyWhenFree ==
    \A t \in Turns : turn[t].at = "answered" =>
        /\ t \in sawSession \/ <<t, "session">> \in blind
        /\ t \in sawRow \/ <<t, "row">> \in blind
=============================================================================
