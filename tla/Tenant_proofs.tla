---------------------------- MODULE Tenant_proofs ----------------------------
(***************************************************************************)
(* Proofs about MCTenant, for every value of the constants: a behaviour of *)
(* the tenant is a behaviour of every part, so that what is proved of the  *)
(* parts alone, each from its own specification, holds in the tenant; and  *)
(* the types.                                                              *)
(***************************************************************************)
EXTENDS MCTenant, TenantParts_proofs, TenantBooks_proofs, HumanHold_proofs, Subscriptions_proofs

(* A behaviour runs the bot's turns and nothing else, or has none.         *)
HoldAlone ==
    IF "hold" \in part THEN part = {"hold"} ELSE \A t \in Turns : turn[t].at = "new"

-----------------------------------------------------------------------------
(* A step of the tenant, seen by each part                                 *)

LEMMA GateSteps == [TenantNext]_TenantVars => [IngressNext]_ingressVars
BY DEF TenantNext, TenantVars

LEMMA BooksSteps == [TenantNext]_TenantVars => [BooksNext]_booksVars
BY DEF TenantNext, TenantVars, BooksStep, BooksNext

LEMMA ReaderSteps == [TenantNext]_TenantVars => [ReaderNext]_readerVars
BY DEF TenantNext, TenantVars

LEMMA PlanSteps == [TenantNext]_TenantVars => [PlanNext]_planVars
BY DEF TenantNext, TenantVars

LEMMA InviteSteps == [TenantNext]_TenantVars => [InviteNext]_inviteVars
BY DEF TenantNext, TenantVars

(* What is restricted to one chat is a step that may take any.             *)
LEMMA OneChatSteps ==
  /\ RoutingNext({k1}) => RoutingNext(Chats)
  /\ MuteNext({k1}) => MuteNext(Chats)
  /\ SendingNext({k1}) => SendingNext(Chats)
  /\ HoldStep({k1}) => HoldStep(Chats)
<1>1. RoutingNext({k1}) => RoutingNext(Chats)
  BY OneChatAssumption DEF RoutingNext
<1>2. MuteNext({k1}) => MuteNext(Chats)
  BY OneChatAssumption DEF MuteNext
<1>3. SendingNext({k1}) => SendingNext(Chats)
  BY OneChatAssumption DEF SendingNext
<1>4. \A t \in Turns : TurnStep(t, {k1}) => TurnStep(t, Chats)
  BY OneChatAssumption DEF TurnStep
<1>5. HoldStep({k1}) => HoldStep(Chats)
  BY <1>4, OneChatAssumption DEF HoldStep
<1>6. QED
  BY <1>1, <1>2, <1>3, <1>5

LEMMA HoldAloneInductive ==
  /\ TenantInit => HoldAlone
  /\ HoldAlone /\ [TenantNext]_TenantVars => HoldAlone'
<1>1. TenantInit => HoldAlone
  BY DEF TenantInit, PartsMC, Writers, HoldInit, New, HoldAlone
<1>2. [TenantNext]_TenantVars => part' = part /\ ("hold" \in part \/ UNCHANGED holdVars)
  BY DEF TenantNext, TenantVars, InboxVars, BooksStep
<1>3. UNCHANGED holdVars => turn' = turn
  BY DEF holdVars
<1>4. QED
  BY <1>1, <1>2, <1>3 DEF HoldAlone

(* While no message is under way the desk works without a turn that could  *)
(* see what it does.                                                       *)
LEMMA HoldSteps == HoldAlone /\ [TenantNext]_TenantVars => [HoldNext]_allVars
<1> SUFFICES ASSUME HoldAlone, [TenantNext]_TenantVars
             PROVE  HoldNext \/ UNCHANGED <<deskVars, holdVars>>
  BY DEF allVars
<1>1. \/ UNCHANGED <<deskVars, holdVars>>
      \/ "hold" \notin part /\ DeskNext /\ UNCHANGED holdVars
      \/ "hold" \in part /\ Witness
            /\ (HoldStep({k1}) \/ (MuteNext({k1}) /\ UNCHANGED <<session, cache, turn, blind>>))
  <2>1. CASE "desk" \in part /\ RoutingNext(Chats) /\ UNCHANGED holdVars
    BY <2>1 DEF DeskNext, HoldAlone
  <2>2. CASE /\ "send" \in part
             /\ RoutingNext({k1}) \/ MuteNext({k1}) \/ SendingNext({k1})
             /\ UNCHANGED holdVars
    BY <2>2, OneChatSteps DEF DeskNext, HoldAlone
  <2>3. QED
    BY <2>1, <2>2 DEF TenantNext, TenantVars, InboxVars
<1>2. ASSUME "hold" \notin part, DeskNext, UNCHANGED holdVars PROVE HoldNext
  <2>1. UNCHANGED <<session, cache, turn, sawSession, sawRow, blind>>
    BY <1>2 DEF holdVars
  <2>2. \A t \in Turns : turn'[t].at \notin Waiting
    BY <1>2, <2>1 DEF HoldAlone, Waiting
  <2>3. Witness
    BY <2>1, <2>2 DEF Witness
  <2>4. QED
    BY <1>2, <2>1, <2>3 DEF HoldNext, DeskStep
<1>3. QED
  BY <1>1, <1>2, OneChatSteps DEF HoldNext, DeskStep, DeskNext

-----------------------------------------------------------------------------
(* MCTenant runs its parts beside each other, and each of them behaves as  *)
(* it does alone: a step of the tenant is a step of one part and none of   *)
(* the others.                                                             *)
THEOREM TenantImplementsParts ==
  TenantSpec => /\ IngressSpec /\ BooksSpec /\ ReaderSpec
                /\ HoldSpec /\ DeskSpec
                /\ PlanSpec /\ InviteSpec
<1>1. TenantInit => /\ IngressInit /\ BooksInit /\ ReaderInit
                    /\ DeskInit /\ HoldInit /\ PlanInit /\ InviteInit
  BY DEF TenantInit
<1>2. TenantSpec => []HoldAlone
  BY HoldAloneInductive, PTL DEF TenantSpec
<1>3. TenantSpec => IngressSpec /\ BooksSpec /\ ReaderSpec
  BY <1>1, GateSteps, BooksSteps, ReaderSteps, PTL
  DEF TenantSpec, IngressSpec, BooksSpec, ReaderSpec
<1>4. TenantSpec => PlanSpec /\ InviteSpec
  BY <1>1, PlanSteps, InviteSteps, PTL DEF TenantSpec, PlanSpec, InviteSpec
<1>5. TenantSpec => HoldSpec
  BY <1>1, <1>2, HoldSteps, PTL DEF TenantSpec, HoldSpec, allVars
<1>6. QED
  BY <1>3, <1>4, <1>5, HoldImplementsDesk, PTL

(* Every part holds values of its types, whichever part runs.              *)
THEOREM TenantTypeCorrect == TenantSpec => []TenantTypeOK
<1>1. IngressTypeOK /\ BooksTypeOK /\ ReaderTypeOK /\ DeskTypeOK /\ HoldTypeOK
        /\ PlanTypeOK /\ InviteTypeOK => TenantTypeOK
  BY DEF TenantTypeOK
<1>2. QED
  BY <1>1, TenantImplementsParts, IngressTypeCorrect, BooksTypeCorrect, ReaderTypeCorrect,
     DeskTypeCorrect, HoldTypeCorrect, PlanTypeCorrect, InviteTypeCorrect, PTL

(* What the gates, the books, the receipts, the desk, the hold, the plan   *)
(* and the invitations promise alone, they promise together.               *)
THEOREM TenantKeepsPromises ==
  TenantSpec =>
    [](/\ TurnsBounded /\ FrictionBeforeBurstQuarantine /\ PatientPeerMissesOneMessage
       /\ BalanceIsCoherent /\ LostOnlyToStaleCopies
       /\ SentTwiceOnlyUnmarked /\ RemindedTwiceOnlySlipped
       /\ OneReceiptOneOrder
       /\ OverloadBounded /\ ResentOnlyUnrecorded /\ AnswersOnlyWhenFree
       /\ CommissionsAreDue /\ PaidPeriodIsServed
       /\ AccessGivenOnce)
BY TenantImplementsParts, TurnsAreBounded, FrictionComesFirst, PatientPeerIsServed,
   BalanceAlwaysCoherent, OnlyStaleCopiesLose, SentTwiceNeedsACause, RemindedTwiceNeedsACause,
   ReceiptsMatchOrders, LoadBounded, KeyProtects, BotKeepsSilent,
   CommissionsAlwaysDue, PaidPeriodsAreServed, AccessIsGivenOnce, PTL
=============================================================================
