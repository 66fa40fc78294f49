------------------------------ MODULE MCTenant ------------------------------
(***************************************************************************)
(* What a tenant has beside its checkout: the gates a peer passes, in the  *)
(* memory of one process; the books, a record that processes read and      *)
(* replace without a lock; the receipts that pay orders by their amount;   *)
(* the desk, where chats go to agents, with the hold that silences the     *)
(* bot; the plan the tenant pays for; and the invitations to a class of    *)
(* its own.  They do not touch each other, so a behaviour runs one of them *)
(* and the others stay as they started: the books with two of their four   *)
(* writers, the desk as the router alone with all chats ("desk"), one chat *)
(* with the messages of agents ("send"), or one chat with the turns of the *)
(* bot ("hold").                                                           *)
(***************************************************************************)
EXTENDS IngressGate, TenantBooks, ReaderMatch, HumanHold, Subscriptions, InviteLinks, TLC

CONSTANTS p1, p2, n1, n2, k1, k2, k3, s1, s2, i1, i2

ASSUME OneChatAssumption == k1 \in Chats

VARIABLE
    part            \* what runs, a set of names; never changes

InboxVars == <<deskVars, holdVars>>

TenantVars == <<part, ingressVars, booksVars, readerVars, InboxVars, planVars, inviteVars>>

(* Ticks for seconds: windows of 2, 4 and 5 ticks stand for the 5, 10 and  *)
(* 60 seconds of the three counters.  As in the code, the first cooldown   *)
(* outlasts the burst windows but not the velocity window, and the later   *)
(* ones are longer; Patience outlasts them all.                            *)
CooldownsMC == <<4, 5, 6>>

(* Troubles of a deployment with one database, which may happen or not, and *)
(* two databases without trouble.                                          *)
DeploymentsMC ==
    ({{"supabase"}, {"postgres", "crash"}} \X {TRUE}) \cup ({{}} \X {FALSE})

(* One database and no trouble.                                            *)
SoundDeployment == {<<{}, TRUE>>}

(* Two requests with one key.                                              *)
OneKey == s1 :> "key" @@ s2 :> "key"

(* The writers of the tenant's record; two of the four run together.       *)
Writers == {"charge", "topup", "goods", "remind"}

PartsMC ==
    {{"gate"}, {"reader"}, {"desk"}, {"send"}, {"hold"}, {"plan"}, {"invite"}}
        \cup {w \in SUBSET Writers : Cardinality(w) = 2}

(* Two of the three fulfilments run at one process, the third there or at  *)
(* the other; neither calls nor processes differ in anything else.         *)
TenantInit ==
    /\ IngressInit /\ BooksInit /\ ReaderInit /\ DeskInit /\ HoldInit /\ PlanInit /\ InviteInit
    /\ part \in PartsMC
    /\ part \cap Writers = {} => trouble = {} /\ ~oneDatabase
    /\ part # {"plan"} => tenant.paying
    /\ \A c \in Fulfilments : host[c] = "h1" \/ ("invite" \in part /\ c = "f3")
    /\ part # {"desk"} => \A a \in Agents : agent[a].max = 1

BooksStep ==
    \E p \in Processes :
        \/ "charge" \in part /\ ChargeNext(p)
        \/ "topup" \in part /\ TopUpNext(p)
        \/ "goods" \in part /\ FulfilNext(p)
        \/ "remind" \in part /\ ScanNext(p)
        \/ part \cap Writers # {} /\ ProcessDies(p)

TenantNext ==
    \/ "gate" \in part /\ IngressNext /\ UNCHANGED <<part, booksVars, readerVars, InboxVars, planVars, inviteVars>>
    \/ BooksStep /\ UNCHANGED <<part, ingressVars, readerVars, InboxVars, planVars, inviteVars>>
    \/ "reader" \in part /\ ReaderNext /\ UNCHANGED <<part, ingressVars, booksVars, InboxVars, planVars, inviteVars>>
    \/ /\ "desk" \in part /\ RoutingNext(Chats)
       /\ UNCHANGED <<part, ingressVars, booksVars, readerVars, holdVars, planVars, inviteVars>>
    \/ /\ "send" \in part /\ (RoutingNext({k1}) \/ MuteNext({k1}) \/ SendingNext({k1}))
       /\ UNCHANGED <<part, ingressVars, booksVars, readerVars, holdVars, planVars, inviteVars>>
    \/ /\ "hold" \in part
       /\ \/ HoldStep({k1})
          \/ MuteNext({k1}) /\ UNCHANGED <<session, cache, turn, blind>>
       /\ Witness
       /\ UNCHANGED <<part, ingressVars, booksVars, readerVars, planVars, inviteVars>>
    \/ "plan" \in part /\ PlanNext /\ UNCHANGED <<part, ingressVars, booksVars, readerVars, InboxVars, inviteVars>>
    \/ /\ "invite" \in part /\ InviteNext
       /\ UNCHANGED <<part, ingressVars, booksVars, readerVars, InboxVars, planVars>>

(* Nothing tells the two processes apart, in any part.                     *)
Alike == Permutations({p1, p2})

TenantSpec == TenantInit /\ [][TenantNext]_TenantVars

(* The variables of what runs hold values of their types; the others are   *)
(* as they started.                                                        *)
TenantTypeOK ==
    /\ "gate" \in part => IngressTypeOK
    /\ part \cap Writers # {} => BooksTypeOK
    /\ "reader" \in part => ReaderTypeOK
    /\ part \cap {"desk", "send", "hold"} # {} => DeskTypeOK /\ HoldTypeOK
    /\ "plan" \in part => PlanTypeOK
    /\ "invite" \in part => InviteTypeOK
=============================================================================
