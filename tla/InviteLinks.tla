---------------------------- MODULE InviteLinks ----------------------------
(***************************************************************************)
(* The paid order of an online class, whose goods are an invitation to a   *)
(* Telegram group that admits one person                                   *)
(* (app/services/ctwa_fulfillment_service.py).  The settlement and the     *)
(* seller each start a fulfilment as a task of their process; it looks the *)
(* order up, asks Telegram, stores the link, sends it and reports the      *)
(* purchase, and other tasks of the process run while it awaits Telegram,  *)
(* WhatsApp or Meta, and at no other time.                                 *)
(*                                                                         *)
(* ONE order in one database; it starts unpaid in both statuses (an empty  *)
(* payment status, which the check lets pass, is left out) and without a   *)
(* link, and its buyer has a phone.                                        *)
(***************************************************************************)
EXTENDS Naturals

CONSTANTS
    Hosts,          \* server processes
    Fulfilments,    \* calls of fulfill_onlineboost_ctwa_order
    InviteFaults    \* TRUE: services fail or answer too late, processes die

ASSUME InviteAssumption == InviteFaults \in BOOLEAN

VARIABLES
    row,            \* the row of orders, a record of Rows
    linked,         \* Hosts with a link of the order in _ISSUED_TELEGRAM_LINKS_CACHE
    closed,         \* Hosts with the order's _DELIVERED entry there
    call,           \* [Fulfilments -> CallStages]
    host,           \* [Fulfilments -> Hosts]: where a call runs
    invites,        \* history: links Telegram has made
    told,           \* history: times the link was sent to the buyer
    purchases,      \* history: purchases reported to Meta
    slips           \* history: what went wrong, a set of Slips

inviteVars == <<row, linked, closed, call, host, invites, told, purchases, slips>>

(* "link" stands for the columns and metadata that may hold the link,      *)
(* "mark" for fulfillment_status in the metadata.                          *)
Rows == [status : {"PENDING", "PAID", "CANCELLED"}, payment : {"PENDING", "PAID"},
         link : BOOLEAN, mark : {"none", "pending", "delivered"}]

(* Two calls between their look and their store; a link nobody could find  *)
(* again; an order that could not be read; a stored link that was not sent. *)
Slips == {"beside", "unstored", "unread", "unsent"}

Storing == {"store", "again"}
Issuing == {"ask", "made"} \cup Storing
Telling == {"send", "report", "close"}
CallStages == {"idle", "done"} \cup Issuing \cup Telling

InviteTypeOK ==
    /\ row \in Rows
    /\ linked \subseteq Hosts /\ closed \subseteq Hosts
    /\ call \in [Fulfilments -> CallStages]
    /\ host \in [Fulfilments -> Hosts]
    /\ invites \in Nat /\ told \in Nat /\ purchases \in Nat
    /\ slips \subseteq Slips

InviteInit ==
    /\ row = [status |-> "PENDING", payment |-> "PENDING", link |-> FALSE, mark |-> "none"]
    /\ linked = {} /\ closed = {}
    /\ call = [c \in Fulfilments |-> "idle"]
    /\ host \in [Fulfilments -> Hosts]
    /\ invites = 0 /\ told = 0 /\ purchases = 0
    /\ slips = {}

-----------------------------------------------------------------------------
Reach(c, stage) == call' = [call EXCEPT ![c] = stage]

(* Between the answer of Telegram and the message to the buyer nothing is  *)
(* awaited: no other task of the process runs.                             *)
Runs(c) == \A d \in Fulfilments \ {c} : ~(host[d] = host[c] /\ call[d] \in Storing)

Slip(cause, happened) == slips' = IF happened THEN slips \cup {cause} ELSE slips

(* Mutant: what is stored in the order does not count.                     *)
KnownInMemory(h, order) == h \in linked

(* The memory of the process, else what the order that was read says.      *)
Known(h, order) == h \in linked \/ order.link

(* Both statuses must be paid; an order that could not be read passes.     *)
VerifiedPaid(order) == order.status = "PAID" /\ order.payment = "PAID"

NotRead == [status |-> "PAID", payment |-> "PAID", link |-> FALSE, mark |-> "none"]

(* Nothing to do any more.                                                 *)
Refuses(c, order) ==
    \/ ~VerifiedPaid(order)
    \/ Known(host[c], order) /\ (host[c] \in closed \/ order.mark = "delivered")

(* The order is read from Supabase or PostgreSQL, neither of which may     *)
(* answer, and a link that was made before is used again.                  *)
Begin(c) ==
    /\ call[c] = "idle" /\ Runs(c)
    /\ \E order \in {row} \cup (IF InviteFaults THEN {NotRead} ELSE {}) :
          \/ Refuses(c, order) /\ Reach(c, "done") /\ UNCHANGED slips
          \/ /\ ~Refuses(c, order)
             /\ Reach(c, IF Known(host[c], order) THEN "send" ELSE "ask")
             /\ slips' = slips
                  \cup {s \in {"unread"} : order # row}
                  \cup {s \in {"beside"} : \E d \in Fulfilments : call[d] \in Issuing}
    /\ UNCHANGED <<row, linked, closed, host, invites, told, purchases>>

(* createChatInviteLink, at Telegram.                                      *)
Create(c) ==
    /\ call[c] = "ask"
    /\ Reach(c, "made")
    /\ invites' = invites + 1
    /\ UNCHANGED <<row, linked, closed, host, told, purchases, slips>>

Receive(c) ==
    /\ call[c] = "made" /\ Runs(c)
    /\ linked' = linked \cup {host[c]}
    /\ Reach(c, "store")
    /\ UNCHANGED <<row, closed, host, invites, told, purchases, slips>>

(* Telegram refuses, or its answer does not arrive in 10 seconds: the      *)
(* order waits for another call, which nothing starts; the link in its     *)
(* columns, if another call has stored one, stays.                         *)
InviteFails(c) ==
    /\ InviteFaults
    /\ call[c] \in {"ask", "made"} /\ Runs(c)
    /\ \/ row' = [row EXCEPT !.status = "PAID", !.payment = "PAID", !.mark = "pending"]
       \/ UNCHANGED row
    /\ Slip("unstored", call[c] = "made")
    /\ Reach(c, "done")
    /\ UNCHANGED <<linked, closed, host, invites, told, purchases>>

Stored(order) ==
    [order EXCEPT !.status = "PAID", !.payment = "PAID", !.link = TRUE, !.mark = "delivered"]

(* The row is written through Supabase and then through PostgreSQL; errors *)
(* are swallowed, and the status is not looked at again.                   *)
Store(c) ==
    /\ call[c] \in Storing
    /\ row' \in {Stored(row)} \cup (IF InviteFaults THEN {row} ELSE {})
    /\ Reach(c, IF call[c] = "store" THEN "again" ELSE "send")
    /\ Slip("unstored", call[c] = "again" /\ ~row'.link)
    /\ UNCHANGED <<linked, closed, host, invites, told, purchases>>

(* The message to the buyer; an error is swallowed.                        *)
Send(c) ==
    /\ call[c] = "send" /\ Runs(c)
    /\ \/ told' = told + 1 /\ UNCHANGED slips
       \/ InviteFaults /\ UNCHANGED told /\ Slip("unsent", TRUE)
    /\ Reach(c, "report")
    /\ UNCHANGED <<row, linked, closed, host, invites, purchases>>

ReportPurchase(c) ==
    /\ call[c] = "report" /\ Runs(c)
    /\ purchases' = purchases + 1 \/ (InviteFaults /\ UNCHANGED purchases)
    /\ Reach(c, "close")
    /\ UNCHANGED <<row, linked, closed, host, invites, told, slips>>

Close(c) ==
    /\ call[c] = "close" /\ Runs(c)
    /\ closed' = closed \cup {host[c]}
    /\ Reach(c, "done")
    /\ UNCHANGED <<row, linked, host, invites, told, purchases, slips>>

-----------------------------------------------------------------------------
(* The settlement sets both statuses, the seller only one.                 *)
Settles ==
    /\ row.payment = "PENDING"
    /\ row' = [row EXCEPT !.status = "PAID", !.payment = "PAID"]
    /\ UNCHANGED <<linked, closed, call, host, invites, told, purchases, slips>>

SellerSets(status) ==
    /\ row' = [row EXCEPT !.status = status]
    /\ UNCHANGED <<linked, closed, call, host, invites, told, purchases, slips>>

(* The memory and the tasks of a process are lost.                         *)
HostDies(h) ==
    /\ InviteFaults
    /\ LET here == {c \in Fulfilments : host[c] = h /\ call[c] \notin {"idle", "done"}}
       IN /\ call' = [c \in Fulfilments |-> IF c \in here THEN "done" ELSE call[c]]
          /\ slips' = slips
               \cup {s \in {"unstored"} :
                       ~row.link /\ \E c \in here : call[c] \in {"made"} \cup Storing}
               \cup {s \in {"unsent"} : \E c \in here : call[c] \in Storing \cup {"send"}}
    /\ linked' = linked \ {h} /\ closed' = closed \ {h}
    /\ UNCHANGED <<row, host, invites, told, purchases>>

InviteStep(c) ==
    \/ Begin(c) \/ Create(c) \/ Receive(c) \/ InviteFails(c) \/ Store(c)
    \/ Send(c) \/ ReportPurchase(c) \/ Close(c)

InviteNext ==
    \/ \E c \in Fulfilments : InviteStep(c)
    \/ Settles
    \/ \E status \in {"PAID", "CANCELLED"} : SellerSets(status)
    \/ \E h \in Hosts : HostDies(h)

InviteSpec == InviteInit /\ [][InviteNext]_inviteVars

-----------------------------------------------------------------------------
(* What the fulfilments must get right together                            *)

(* "idempoten, cegah link ganda saat retry" (idempotent, no second link on *)
(* a retry): one link, one message and one reported purchase for an order, *)
(* unless two fulfilments ran beside each other before either had stored   *)
(* its link, a link was lost before it was stored, or the order could not  *)
(* be read.                                                                *)
NothingTwice ==
    invites > 1 \/ told > 1 \/ purchases > 1 => slips \cap {"beside", "unstored", "unread"} # {}

(* DELIVERED is stored before the link is sent and stops every later call: *)
(* the buyer of such an order has the link, unless the message failed or   *)
(* the process died in between.                                            *)
NobodyForgotten ==
    row.mark = "delivered" /\ (\A c \in Fulfilments : call[c] \notin {"again", "send"})
        => told > 0 \/ "unsent" \in slips

AccessGivenOnce == NothingTwice /\ NobodyForgotten
=============================================================================
