------------------------- MODULE TenantParts_proofs -------------------------
(***************************************************************************)
(* Proofs about three of the parts a tenant has beside its checkout.       *)
(* IngressGate, for any windows, limits and cooldowns within its           *)
(* assumptions: the type invariant and its three promises.  ReaderMatch,   *)
(* for any number of server processes, orders and receipts: the type       *)
(* invariant, and that receipts and orders match one to one but for the    *)
(* openings OneReceiptOneOrder names.  InviteLinks, for any number of      *)
(* server processes and calls: the type invariant, and that an order gives *)
(* access once but for the openings AccessGivenOnce names.                 *)
(***************************************************************************)
EXTENDS IngressGate, ReaderMatch, InviteLinks, FiniteSetTheorems, TLAPS

-----------------------------------------------------------------------------
(***************************************************************************)
(* The gates in front of the bot: IngressGate                              *)
(***************************************************************************)

(* A list of timestamps over windows of up to n ticks: nothing is younger  *)
(* than 0 ticks, and a longer window counts no less.                       *)
IsHistory(h, top) ==
    /\ h \in [0..top -> Nat]
    /\ h[0] = 0
    /\ \A m, n \in 0..top : m <= n => h[m] <= h[n]

HistoryInv ==
    /\ IsHistory(bursts, BurstWindow)
    /\ IsHistory(recent, VelocityWindow)
    /\ IsHistory(turns, LoopWindow)

(* The turns of a peer that is not in quarantine are among its recent      *)
(* messages.  One that is in quarantine had its last turn so long ago that *)
(* none is left in the window when the cooldown ends.                      *)
TurnsInv ==
    /\ peer # "PEER_QUARANTINED" => \A n \in TurnSpans : turns[n] <= recent[n]
    /\ peer = "PEER_QUARANTINED" => \A n \in TurnSpans : n + cooldown <= LoopWindow => turns[n] = 0

(* In any k windows of Gate C there are at most k * (BurstCount - 1)       *)
(* messages.                                                               *)
Spaced(h) ==
    \A k \in Nat : \A m, n \in LoopSpans :
        m <= n /\ n - m <= k * BurstWindow => h[n] <= h[m] + k * (BurstCount - 1)

(* Until the first challenge Gate C has counted every message, and layer 4 *)
(* has counted no more.                                                    *)
FrictionInv ==
    ~challenged =>
        /\ gate = "NORMAL"
        /\ tripped # "burst"
        /\ bursts[BurstWindow] < BurstCount
        /\ \A n \in BurstSpans : recent[n] <= bursts[n]
        /\ Spaced(recent)

(* What happened lies further back than the last message.                  *)
PatienceInv ==
    /\ \A n \in BurstSpans : n <= quiet => bursts[n] = 0
    /\ \A n \in LoopSpans : n <= quiet => recent[n] = 0
    /\ cooldown = 0 \/ cooldown + quiet <= Patience
    /\ Pending => misses = 0 /\ (quiet <= issued \/ Expired)
    /\ misses <= 1

-----------------------------------------------------------------------------
(* Lists of timestamps                                                     *)

LEMMA SpansIncluded ==
  /\ BurstWindow \in BurstSpans /\ BurstWindow \in LoopSpans
  /\ LoopWindow \in TurnSpans /\ LoopWindow \in LoopSpans /\ VelocityWindow \in LoopSpans
  /\ BurstSpans \subseteq LoopSpans /\ TurnSpans \subseteq LoopSpans /\ BurstSpans \subseteq TurnSpans
BY GateAssumption DEF BurstSpans, LoopSpans, TurnSpans

LEMMA NeverIsHistory ==
  ASSUME NEW top \in Nat
  PROVE  IsHistory(Never(0..top), top)
BY DEF IsHistory, Never

LEMMA NowIsHistory ==
  ASSUME NEW top \in Nat, NEW h, IsHistory(h, top)
  PROVE  /\ IsHistory(Now(h), top)
         /\ Now(h)[0] = 0
         /\ \A n \in 1..top : Now(h)[n] = h[n] + 1
         /\ \A n \in 0..top : Now(h)[n] <= h[n] + 1
<1>1. DOMAIN h = 0..top  BY DEF IsHistory
<1>2. /\ Now(h)[0] = 0
      /\ \A n \in 1..top : Now(h)[n] = h[n] + 1
      /\ Now(h) \in [0..top -> Nat]
  BY <1>1 DEF IsHistory, Now
<1>3. ASSUME NEW m \in 0..top, NEW n \in 0..top, m <= n
      PROVE  Now(h)[m] <= Now(h)[n] /\ Now(h)[n] <= h[n] + 1
  <2>1. h[m] \in Nat /\ h[n] \in Nat /\ h[m] <= h[n]  BY <1>3 DEF IsHistory
  <2>2. n # 0 => Now(h)[n] = h[n] + 1  BY <1>2
  <2>3. m # 0 => Now(h)[m] = h[m] + 1 /\ n # 0  BY <1>2, <1>3
  <2> QED  BY <1>2, <2>1, <2>2, <2>3
<1> QED  BY <1>2, <1>3 DEF IsHistory

LEMMA CappedIsHistory ==
  ASSUME NEW top \in Nat, NEW h, IsHistory(h, top), \A n \in 0..top : h[n] <= BurstCount
  PROVE  /\ IsHistory(Capped(h), top)
         /\ Capped(h)[0] = 0
         /\ \A n \in 0..top : Capped(h)[n] <= BurstCount
         /\ \A n \in 1..top : h[n] < BurstCount => Capped(h)[n] = h[n] + 1
<1>1. DOMAIN h = 0..top /\ BurstCount \in Nat  BY GateAssumption DEF IsHistory
<1>2. /\ Capped(h)[0] = 0
      /\ \A n \in 1..top : Capped(h)[n] = UpTo(BurstCount, h[n])
      /\ Capped(h) \in [0..top -> Nat]
  <2>1. \A n \in 0..top : h[n] \in Nat  BY DEF IsHistory
  <2>2. \A n \in 0..top : UpTo(BurstCount, h[n]) \in Nat  BY <1>1, <2>1 DEF UpTo
  <2>3. Capped(h) = [n \in 0..top |-> IF n = 0 THEN 0 ELSE UpTo(BurstCount, h[n])]
    BY <1>1 DEF Capped
  <2>4. 0 \in 0..top /\ 1..top \subseteq 0..top /\ 0 \notin 1..top  OBVIOUS
  <2>5. \A n \in 0..top : (IF n = 0 THEN 0 ELSE UpTo(BurstCount, h[n])) \in Nat  BY <2>2
  <2>6. Capped(h) \in [0..top -> Nat]  BY <2>3, <2>5, Zenon
  <2>7. \A n \in 0..top : Capped(h)[n] = IF n = 0 THEN 0 ELSE UpTo(BurstCount, h[n])
    BY <2>3, Zenon
  <2> QED  BY <2>4, <2>6, <2>7, Zenon
<1>3. \A n \in 1..top : /\ Capped(h)[n] <= BurstCount
                        /\ h[n] < BurstCount => Capped(h)[n] = h[n] + 1
                        /\ h[n] = BurstCount => Capped(h)[n] = BurstCount
  BY <1>1, <1>2 DEF UpTo, IsHistory
<1>4. ASSUME NEW m \in 0..top, NEW n \in 0..top, m <= n
      PROVE  Capped(h)[m] <= Capped(h)[n]
  <2>1. h[m] \in Nat /\ h[n] \in Nat /\ h[m] <= h[n] /\ h[m] <= BurstCount /\ h[n] <= BurstCount
    BY <1>4 DEF IsHistory
  <2>2. CASE m = 0  BY <1>2, <2>2
  <2>3. CASE m # 0
    <3>1. m \in 1..top /\ n \in 1..top  BY <1>4, <2>3
    <3> QED  BY <1>1, <1>2, <1>3, <2>1, <3>1 DEF UpTo
  <2> QED  BY <2>2, <2>3
<1> QED  BY <1>1, <1>2, <1>3, <1>4 DEF IsHistory

LEMMA OlderIsHistory ==
  ASSUME NEW top \in Nat, NEW h, IsHistory(h, top)
  PROVE  /\ IsHistory(Older(h), top)
         /\ Older(h)[0] = 0
         /\ \A n \in 1..top : n - 1 \in 0..top /\ Older(h)[n] = h[n - 1]
         /\ \A n \in 0..top : Older(h)[n] <= h[n]
<1>1. DOMAIN h = 0..top  BY DEF IsHistory
<1>2. /\ Older(h)[0] = 0
      /\ \A n \in 1..top : n - 1 \in 0..top /\ Older(h)[n] = h[n - 1]
      /\ Older(h) \in [0..top -> Nat]
  BY <1>1 DEF IsHistory, Older
<1>3. \A n \in 0..top : Older(h)[n] <= h[n]
  <2> TAKE n \in 0..top
  <2>1. CASE n = 0  BY <1>2, <2>1 DEF IsHistory
  <2>2. CASE n \in 1..top  BY <1>2, <2>2 DEF IsHistory
  <2> QED  BY <2>1, <2>2
<1>4. ASSUME NEW m \in 0..top, NEW n \in 0..top, m <= n
      PROVE  Older(h)[m] <= Older(h)[n]
  <2>1. CASE m = 0  BY <1>2, <2>1
  <2>2. CASE m # 0
    <3>1. m \in 1..top /\ n \in 1..top /\ m - 1 <= n - 1  BY <1>4, <2>2
    <3> QED  BY <1>2, <3>1 DEF IsHistory
  <2> QED  BY <2>1, <2>2
<1> QED  BY <1>2, <1>3, <1>4 DEF IsHistory

-----------------------------------------------------------------------------
(* Messages                                                                *)

(* What layer 4 still counts, when it comes to counting.                   *)
Counts(history) ==
    \/ peer # "PEER_QUARANTINED" /\ history = recent
    \/ peer = "PEER_QUARANTINED" /\ cooldown = 0 /\ history = Never(LoopSpans)

Waits == peer = "PEER_QUARANTINED" /\ cooldown > 0 /\ Dropped /\ UNCHANGED <<loopVars, used, tripped>>

LEMMA Layer4Steps ==
  ASSUME Layer4, IngressTypeOK
  PROVE  \/ Waits
         \/ \E history, state : /\ Counts(history) /\ Contain(history, state)
                               /\ state \in {"ACTIVE", "HALF_OPEN"}
BY DEF Layer4, Counts, Waits, IngressTypeOK

LEMMA DropSteps ==
  ASSUME Dropped, IngressTypeOK
  PROVE  /\ quiet' = 0 /\ turns' = turns
         /\ misses' \in {0, misses + 1}
         /\ quiet < Patience \/ paused \/ used = Budget => misses' = 0
BY DEF Dropped, IngressTypeOK

(* Layer 4 with the layers behind it does one of four things.              *)
LEMMA ContainSteps ==
  ASSUME NEW history, NEW state, Contain(history, state), IngressTypeOK
  PROVE  /\ recent' = Now(history)
         /\ quiet' = 0
         /\ \/ /\ BurstBreached(history) \/ VelocityBreached(history)
               /\ \E level \in 1..3 : cooldown' = Cooldowns[level] /\ violations' = level
               /\ peer' = "PEER_QUARANTINED"
               /\ tripped' = IF VelocityBreached(history) THEN "velocity" ELSE "burst"
               /\ Dropped /\ used' = used
            \/ /\ ~BurstBreached(history) /\ ~VelocityBreached(history)
               /\ paused \/ used = Budget
               /\ peer' = state /\ cooldown' = cooldown /\ violations' = violations
               /\ tripped' = tripped
               /\ Dropped /\ used' = used
            \/ /\ ~BurstBreached(history) /\ ~VelocityBreached(history)
               /\ ~paused /\ used # Budget
               /\ peer' = "ACTIVE" /\ cooldown' = cooldown /\ violations' = violations
               /\ tripped' = tripped
               /\ turns' = Now(turns) /\ misses' = 0 /\ used' = used + 1
<1> DEFINE level == IF violations = 3 THEN 3 ELSE violations + 1
<1>1. level \in 1..3  BY DEF IngressTypeOK
<1>2. CASE BurstBreached(history) \/ VelocityBreached(history)
  <2>1. /\ recent' = Now(history) /\ violations' = level /\ cooldown' = Cooldowns[level]
        /\ peer' = "PEER_QUARANTINED" /\ Dropped /\ used' = used
        /\ tripped' = IF VelocityBreached(history) THEN "velocity" ELSE "burst"
    BY <1>2 DEF Contain
  <2> HIDE DEF level
  <2>2. quiet' = 0  BY <2>1 DEF Dropped
  <2> QED  BY <1>1, <1>2, <2>1, <2>2
<1>3. CASE ~(BurstBreached(history) \/ VelocityBreached(history))
  <2>1. recent' = Now(history) /\ Reserve(state)  BY <1>3 DEF Contain
  <2>2. cooldown' = cooldown /\ violations' = violations /\ tripped' = tripped  BY <2>1 DEF Reserve
  <2>3. CASE paused \/ used = Budget
    <3>1. Dropped /\ peer' = state /\ used' = used  BY <2>1, <2>3 DEF Reserve
    <3>2. quiet' = 0  BY <3>1 DEF Dropped
    <3> QED  BY <1>3, <2>1, <2>2, <2>3, <3>1, <3>2
  <2>4. CASE ~(paused \/ used = Budget)
    <3>1. Answered /\ peer' = "ACTIVE" /\ used' = used + 1  BY <2>1, <2>4 DEF Reserve
    <3> QED  BY <1>3, <2>1, <2>2, <2>4, <3>1 DEF Answered
  <2> QED  BY <2>3, <2>4
<1> QED  BY <1>2, <1>3

LEMMA CountsHistory ==
  ASSUME NEW history, Counts(history), HistoryInv
  PROVE  /\ IsHistory(history, VelocityWindow)
         /\ IsHistory(Now(history), VelocityWindow)
         /\ \A n \in 1..VelocityWindow : Now(history)[n] = history[n] + 1
         /\ \A n \in LoopSpans : history[n] <= recent[n]
<1>1. VelocityWindow \in Nat  BY GateAssumption
<1>2. IsHistory(Never(LoopSpans), VelocityWindow)  BY <1>1, NeverIsHistory DEF LoopSpans
<1>3. IsHistory(history, VelocityWindow)  BY <1>2 DEF Counts, HistoryInv
<1>4. \A n \in LoopSpans : history[n] <= recent[n]
  BY <1>3 DEF Counts, Never, HistoryInv, IsHistory, LoopSpans
<1> QED  BY <1>1, <1>3, <1>4, NowIsHistory

(* What a message leaves of the peer's record and of its turns.            *)
LoopTypeOK ==
    /\ peer \in {"ACTIVE", "PEER_QUARANTINED", "HALF_OPEN"}
    /\ cooldown \in Nat
    /\ IsHistory(recent, VelocityWindow)
    /\ violations \in 0..3
    /\ used \in 0..Budget
    /\ quiet \in 0..Patience
    /\ IsHistory(turns, LoopWindow)
    /\ tripped \in {"never", "burst", "velocity"}
    /\ misses \in Nat

LEMMA Layer4Type ==
  ASSUME Layer4, IngressTypeOK, HistoryInv
  PROVE  LoopTypeOK'
<1>1. LoopTypeOK  BY DEF LoopTypeOK, IngressTypeOK, HistoryInv
<1>2. Budget \in Nat /\ Patience \in Nat /\ LoopWindow \in Nat /\ Cooldowns \in [1..3 -> Nat]
  BY GateAssumption
<1>3. CASE Waits
  <2>1. quiet' = 0 /\ turns' = turns /\ misses' \in Nat  BY <1>1, <1>3, DropSteps DEF Waits, LoopTypeOK
  <2> QED  BY <1>1, <1>2, <1>3, <2>1 DEF LoopTypeOK, Waits, loopVars
<1>4. ASSUME NEW history, NEW state, Counts(history), Contain(history, state),
             state \in {"ACTIVE", "HALF_OPEN"}
      PROVE  LoopTypeOK'
  <2>1. IsHistory(recent', VelocityWindow) /\ quiet' \in 0..Patience
    BY <1>2, <1>4, ContainSteps, CountsHistory
  <2>2. IsHistory(Now(turns), LoopWindow)  BY <1>1, <1>2, NowIsHistory DEF LoopTypeOK
  <2>3. Dropped => turns' = turns /\ misses' \in Nat  BY <1>1, DropSteps DEF LoopTypeOK
  <2>4. IsHistory(turns', LoopWindow) /\ misses' \in Nat
    BY <1>1, <1>4, <2>2, <2>3, ContainSteps DEF LoopTypeOK
  <2>5. /\ peer' \in {"ACTIVE", "PEER_QUARANTINED", "HALF_OPEN"} /\ cooldown' \in Nat
        /\ violations' \in 0..3 /\ used' \in 0..Budget
        /\ tripped' \in {"never", "burst", "velocity"}
    BY <1>1, <1>2, <1>4, ContainSteps DEF LoopTypeOK
  <2> QED  BY <2>1, <2>4, <2>5 DEF LoopTypeOK
<1> QED  BY <1>3, <1>4, Layer4Steps

LEMMA GateType ==
  ASSUME StoppedAtGate, IngressTypeOK, HistoryInv
  PROVE  LoopTypeOK'
<1>1. LoopTypeOK  BY DEF LoopTypeOK, IngressTypeOK, HistoryInv
<1>2. quiet' = 0 /\ turns' = turns /\ misses' \in Nat
  BY <1>1, DropSteps DEF StoppedAtGate, LoopTypeOK
<1>3. quiet' \in 0..Patience  BY <1>2, GateAssumption
<1> QED  BY <1>1, <1>2, <1>3 DEF LoopTypeOK, StoppedAtGate, loopVars

LEMMA IngressTypeStep ==
  ASSUME IngressTypeOK, HistoryInv, [IngressNext]_ingressVars
  PROVE  IngressTypeOK' /\ HistoryInv'
<1> DEFINE GateTypeOK ==
        /\ gate \in {"NORMAL", "CHALLENGE_REQUIRED", "ESCALATE_TO_QUARANTINE"}
        /\ issued \in 0..(ChallengeTTL + 1)
        /\ bursts \in [BurstSpans -> 0..BurstCount]
        /\ IsHistory(bursts, BurstWindow)
        /\ paused \in BOOLEAN /\ challenged \in BOOLEAN
<1>1. ASSUME GateTypeOK', LoopTypeOK'
      PROVE  IngressTypeOK' /\ HistoryInv'
  BY <1>1 DEF LoopTypeOK, IngressTypeOK, HistoryInv, IsHistory, LoopSpans, TurnSpans
<1>2. GateTypeOK /\ LoopTypeOK  BY DEF IngressTypeOK, HistoryInv, LoopTypeOK
<1>3. /\ BurstWindow \in Nat /\ BurstCount \in Nat /\ VelocityWindow \in Nat /\ LoopWindow \in Nat
      /\ ChallengeTTL \in Nat /\ Patience \in Nat
  BY GateAssumption
<1>4. /\ Capped(bursts) \in [BurstSpans -> 0..BurstCount]
      /\ IsHistory(Capped(bursts), BurstWindow)
  <2>1. \A n \in 0..BurstWindow : bursts[n] <= BurstCount  BY <1>2, <1>3 DEF BurstSpans
  <2>2. /\ IsHistory(Capped(bursts), BurstWindow)
        /\ \A n \in 0..BurstWindow : Capped(bursts)[n] <= BurstCount
    BY <1>2, <1>3, <2>1, CappedIsHistory
  <2> QED  BY <1>3, <2>2 DEF IsHistory, BurstSpans
<1>5. Never(BurstSpans) \in [BurstSpans -> 0..BurstCount] /\ IsHistory(Never(BurstSpans), BurstWindow)
  <2>1. IsHistory(Never(BurstSpans), BurstWindow)  BY <1>3, NeverIsHistory DEF BurstSpans
  <2> QED  BY <1>3, <2>1 DEF Never
<1>6. CASE ChallengeExpires
  BY <1>1, <1>2, <1>6, GateType DEF ChallengeExpires, StoppedAtGate
<1>7. CASE HumanReplies
  BY <1>1, <1>2, <1>3, <1>5, <1>7, Layer4Type DEF HumanReplies
<1>8. CASE BurstWhilePending
  BY <1>1, <1>2, <1>4, <1>8, GateType DEF BurstWhilePending, StoppedAtGate
<1>9. CASE WrongReply
  BY <1>1, <1>2, <1>4, <1>9, GateType DEF WrongReply, StoppedAtGate
<1>10. CASE BurstChallenged
  BY <1>1, <1>2, <1>3, <1>4, <1>10, GateType DEF BurstChallenged, StoppedAtGate
<1>11. CASE PassesGate
  BY <1>1, <1>2, <1>4, <1>11, Layer4Type DEF PassesGate
<1>12. CASE OwnerPauses
  BY <1>1, <1>2, <1>12 DEF OwnerPauses, gateVars, loopVars, gateNotes, LoopTypeOK
<1>13. CASE OwnerResumes
  <2>1. IsHistory(Never(LoopSpans), VelocityWindow) /\ IsHistory(Never(TurnSpans), LoopWindow)
    BY <1>3, NeverIsHistory DEF LoopSpans, TurnSpans
  <2> QED  BY <1>1, <1>2, <1>13, <2>1 DEF OwnerResumes, gateVars, LoopTypeOK
<1>14. CASE Tick
  <2>1. /\ IsHistory(bursts', BurstWindow) /\ IsHistory(recent', VelocityWindow)
        /\ IsHistory(turns', LoopWindow)
    BY <1>2, <1>3, <1>14, OlderIsHistory DEF Tick, LoopTypeOK
  <2>2. \A n \in 0..BurstWindow : bursts'[n] <= bursts[n]
    BY <1>2, <1>3, <1>14, OlderIsHistory DEF Tick
  <2>3. bursts' \in [BurstSpans -> 0..BurstCount]
    BY <1>2, <1>3, <2>1, <2>2 DEF IsHistory, BurstSpans
  <2>4. issued' \in 0..(ChallengeTTL + 1) /\ quiet' \in 0..Patience /\ cooldown' \in Nat
    BY <1>2, <1>3, <1>14 DEF Tick, UpTo, Less, LoopTypeOK
  <2> QED  BY <1>1, <1>2, <1>14, <2>1, <2>3, <2>4 DEF Tick, LoopTypeOK
<1>15. CASE UNCHANGED ingressVars
  BY <1>1, <1>2, <1>15 DEF ingressVars, gateVars, loopVars, gateNotes, LoopTypeOK
<1> QED
  BY <1>6, <1>7, <1>8, <1>9, <1>10, <1>11, <1>12, <1>13, <1>14, <1>15 DEF IngressNext

-----------------------------------------------------------------------------
(* The three promises of the gates                                         *)

LEMMA TurnsStep ==
  ASSUME IngressTypeOK, HistoryInv, TurnsInv, TurnsBounded, [IngressNext]_ingressVars
  PROVE  TurnsInv' /\ TurnsBounded'
<1>0. /\ VelocityWindow \in Nat /\ LoopWindow \in Nat /\ LoopLimit \in Nat \ {0}
      /\ LoopWindow <= VelocityWindow /\ LoopWindow \in TurnSpans /\ 0 \in TurnSpans
  BY GateAssumption DEF TurnSpans
<1>1. /\ IsHistory(turns, LoopWindow) /\ IsHistory(recent, VelocityWindow)
      /\ \A n \in TurnSpans : turns[n] \in Nat /\ recent[n] \in Nat /\ n \in Nat
      /\ turns[0] = 0 /\ cooldown \in Nat
  BY <1>0 DEF HistoryInv, IngressTypeOK, IsHistory, TurnSpans
<1>2. ASSUME turns' = turns, peer' = peer, cooldown' = cooldown, recent' = recent
      PROVE  TurnsInv' /\ TurnsBounded'
  BY <1>2 DEF TurnsInv, TurnsBounded
<1>3. ASSUME Layer4
      PROVE  TurnsInv' /\ TurnsBounded'
  <2>1. CASE Waits
    BY <1>2, <2>1, DropSteps DEF Waits, loopVars
  <2>2. ASSUME NEW history, NEW state, Counts(history), Contain(history, state),
               state \in {"ACTIVE", "HALF_OPEN"}
        PROVE  TurnsInv' /\ TurnsBounded'
    <3>1. /\ IsHistory(history, VelocityWindow) /\ recent' = Now(history)
          /\ \A n \in 1..VelocityWindow : Now(history)[n] = history[n] + 1
          /\ Now(history)[0] = 0
      BY <2>2, CountsHistory, ContainSteps DEF IsHistory
    <3>2. \A n \in TurnSpans : /\ turns[n] <= history[n] /\ history[n] \in Nat
                               /\ n # 0 => Now(history)[n] = history[n] + 1
      <4>1. \A n \in TurnSpans : history[n] \in Nat /\ (n # 0 => n \in 1..VelocityWindow)
        BY <1>0, <3>1 DEF IsHistory, TurnSpans
      <4>2. CASE peer # "PEER_QUARANTINED"
        BY <2>2, <3>1, <4>1, <4>2 DEF Counts, TurnsInv
      <4>3. CASE peer = "PEER_QUARANTINED"
        <5>1. \A n \in TurnSpans : turns[n] = 0
          BY <1>0, <2>2, <4>3 DEF Counts, TurnsInv, TurnSpans
        <5> QED  BY <3>1, <4>1, <5>1
      <4> QED  BY <4>2, <4>3
    <3>3. CASE BurstBreached(history) \/ VelocityBreached(history)
      <4>1. /\ peer' = "PEER_QUARANTINED" /\ turns' = turns
            /\ \E level \in 1..3 : cooldown' = Cooldowns[level]
        BY <2>2, <3>3, ContainSteps, DropSteps
      <4>2. cooldown' \in Nat /\ LoopWindow <= cooldown'
        BY <1>0, <4>1, GateAssumption, CooldownAssumption
      <4>3. ASSUME NEW n \in TurnSpans, n + cooldown' <= LoopWindow
            PROVE  n = 0
        <5>1. n \in Nat /\ LoopWindow \in Nat  BY <1>0, <1>1
        <5>2. \A a, b, c \in Nat : a + b <= c /\ c <= b => a = 0  OBVIOUS
        <5> QED  BY <4>2, <4>3, <5>1, <5>2
      <4> QED  BY <1>1, <4>1, <4>3 DEF TurnsInv, TurnsBounded
    <3>4. CASE ~BurstBreached(history) /\ ~VelocityBreached(history) /\ (paused \/ used = Budget)
      <4>1. peer' = state /\ turns' = turns  BY <2>2, <3>4, ContainSteps, DropSteps
      <4>2. ASSUME NEW n \in TurnSpans
            PROVE  turns[n] <= Now(history)[n]
        <5>1. CASE n = 0  BY <1>1, <3>1, <5>1
        <5>2. CASE n # 0
          <6>1. /\ turns[n] \in Nat /\ turns[n] <= history[n] /\ history[n] \in Nat
                /\ Now(history)[n] = history[n] + 1
            BY <1>1, <3>2, <5>2, Zenon
          <6> QED  BY <6>1
        <5> QED  BY <5>1, <5>2
      <4> QED  BY <2>2, <3>1, <4>1, <4>2 DEF TurnsInv, TurnsBounded
    <3>5. CASE ~BurstBreached(history) /\ ~VelocityBreached(history) /\ ~paused /\ used # Budget
      <4>1. peer' = "ACTIVE" /\ turns' = Now(turns)  BY <2>2, <3>5, ContainSteps
      <4>2. Now(turns)[0] = 0 /\ \A n \in 1..LoopWindow : Now(turns)[n] = turns[n] + 1
        BY <1>0, <1>1, NowIsHistory
      <4>3. \A n \in TurnSpans : Now(turns)[n] <= Now(history)[n]
        <5> TAKE n \in TurnSpans
        <5>1. CASE n = 0  BY <3>1, <4>2, <5>1
        <5>2. CASE n \in 1..LoopWindow
          <6>1. /\ turns[n] \in Nat /\ turns[n] <= history[n] /\ history[n] \in Nat
                /\ Now(history)[n] = history[n] + 1 /\ Now(turns)[n] = turns[n] + 1
            BY <1>0, <1>1, <3>2, <4>2, <5>2
          <6> QED  BY <6>1
        <5> QED  BY <1>0, <5>1, <5>2 DEF TurnSpans
      <4>4. Now(turns)[LoopWindow] < LoopLimit
        <5>1. CASE LoopWindow = 0  BY <1>0, <4>2, <5>1
        <5>2. CASE LoopWindow \in 1..LoopWindow
          <6>1. /\ turns[LoopWindow] \in Nat /\ turns[LoopWindow] <= history[LoopWindow]
                /\ history[LoopWindow] \in Nat
                /\ Now(turns)[LoopWindow] = turns[LoopWindow] + 1
            <7>1. LoopWindow # 0  BY <1>0, <5>2
            <7> QED  BY <1>0, <1>1, <3>2, <4>2, <5>2, <7>1, Zenon
          <6>2. ~(history[LoopWindow] + 1 >= LoopLimit)  BY <3>5 DEF BurstBreached
          <6> QED  BY <1>0, <6>1, <6>2
        <5> QED  BY <1>0, <5>1, <5>2
      <4> QED  BY <3>1, <4>1, <4>3, <4>4 DEF TurnsInv, TurnsBounded
    <3> QED  BY <3>3, <3>4, <3>5
  <2> QED  BY <1>3, <2>1, <2>2, Layer4Steps
<1>4. ASSUME StoppedAtGate
      PROVE  TurnsInv' /\ TurnsBounded'
  BY <1>2, <1>4, DropSteps DEF StoppedAtGate, loopVars
<1>5. CASE ChallengeExpires \/ BurstWhilePending \/ WrongReply \/ BurstChallenged
  BY <1>4, <1>5 DEF ChallengeExpires, BurstWhilePending, WrongReply, BurstChallenged
<1>6. CASE HumanReplies \/ PassesGate
  BY <1>3, <1>6 DEF HumanReplies, PassesGate
<1>7. CASE OwnerPauses
  BY <1>2, <1>7 DEF OwnerPauses, loopVars, gateNotes
<1>8. CASE OwnerResumes
  <2>1. turns' = Never(TurnSpans) /\ recent' = Never(LoopSpans) /\ peer' = "ACTIVE"
    BY <1>8 DEF OwnerResumes
  <2>2. \A n \in TurnSpans : turns'[n] = 0 /\ recent'[n] = 0
    BY <2>1, SpansIncluded DEF Never
  <2> QED  BY <1>0, <2>1, <2>2 DEF TurnsInv, TurnsBounded
<1>9. CASE Tick
  <2>1. peer' = peer /\ turns' = Older(turns) /\ recent' = Older(recent) /\ cooldown' = Less(cooldown)
    BY <1>9 DEF Tick
  <2>2. /\ Older(turns)[0] = 0 /\ Older(recent)[0] = 0
        /\ \A n \in 1..LoopWindow : Older(turns)[n] = turns[n - 1]
        /\ \A n \in 1..VelocityWindow : Older(recent)[n] = recent[n - 1]
        /\ Older(turns)[LoopWindow] <= turns[LoopWindow]
        /\ Older(turns)[LoopWindow] \in Nat
    <3>1. /\ IsHistory(Older(turns), LoopWindow)
          /\ Older(turns)[0] = 0 /\ Older(recent)[0] = 0
          /\ \A n \in 1..LoopWindow : Older(turns)[n] = turns[n - 1]
          /\ \A n \in 1..VelocityWindow : Older(recent)[n] = recent[n - 1]
          /\ \A n \in TurnSpans : Older(turns)[n] <= turns[n]
      BY <1>0, <1>1, OlderIsHistory DEF TurnSpans
    <3>2. Older(turns)[LoopWindow] \in Nat  BY <1>0, <3>1 DEF IsHistory, TurnSpans
    <3> QED  BY <1>0, <3>1, <3>2
  <2>3. TurnsBounded'  BY <1>0, <1>1, <2>1, <2>2 DEF TurnsBounded
  <2>4. ASSUME NEW n \in TurnSpans
        PROVE  /\ peer # "PEER_QUARANTINED" => turns'[n] <= recent'[n]
               /\ peer = "PEER_QUARANTINED" /\ n + cooldown' <= LoopWindow => turns'[n] = 0
    <3>1. CASE n = 0  BY <2>1, <2>2, <3>1
    <3>2. CASE n # 0
      <4>1. /\ n \in 1..LoopWindow /\ n \in 1..VelocityWindow /\ n - 1 \in TurnSpans
            /\ turns'[n] = turns[n - 1] /\ recent'[n] = recent[n - 1]
        BY <1>0, <2>1, <2>2, <3>2 DEF TurnSpans
      <4>2. n + cooldown' <= LoopWindow => (n - 1) + cooldown <= LoopWindow
        BY <1>0, <1>1, <2>1, <4>1 DEF Less
      <4> QED  BY <4>1, <4>2 DEF TurnsInv
    <3> QED  BY <3>1, <3>2
  <2> QED  BY <2>1, <2>3, <2>4 DEF TurnsInv
<1>10. CASE UNCHANGED ingressVars
  BY <1>2, <1>10 DEF ingressVars, loopVars, gateNotes
<1> QED  BY <1>5, <1>6, <1>7, <1>8, <1>9, <1>10 DEF IngressNext

LEMMA NeverIsSpaced == Spaced(Never(LoopSpans))
<1>1. BurstCount - 1 \in Nat  BY GateAssumption
<1>2. \A k \in Nat : k * (BurstCount - 1) \in Nat  BY <1>1
<1>3. \A n \in LoopSpans : Never(LoopSpans)[n] = 0  BY DEF Never
<1> QED  BY <1>2, <1>3 DEF Spaced

(* A message that Gate C lets through leaves the messages spaced: those of *)
(* its own window are few enough, and the windows before are older.        *)
LEMMA NowIsSpaced ==
  ASSUME NEW h, IsHistory(h, VelocityWindow), Spaced(h), h[BurstWindow] + 1 <= BurstCount - 1
  PROVE  Spaced(Now(h))
<1> DEFINE few == BurstCount - 1
<1>1. /\ few \in Nat /\ BurstWindow \in Nat \ {0} /\ VelocityWindow \in Nat
      /\ BurstWindow \in LoopSpans /\ h[BurstWindow] + 1 <= few
  BY GateAssumption, SpansIncluded
<1> HIDE DEF few
<1>2. /\ \A n \in LoopSpans : n \in Nat /\ h[n] \in Nat
      /\ \A m, n \in LoopSpans : m <= n => h[m] <= h[n]
  BY <1>1 DEF IsHistory, LoopSpans
<1>3. Now(h)[0] = 0 /\ \A n \in LoopSpans : n # 0 => Now(h)[n] = h[n] + 1
  BY <1>1, NowIsHistory DEF LoopSpans
<1>4. ASSUME NEW k \in Nat, NEW m \in LoopSpans, NEW n \in LoopSpans,
             m <= n, n - m <= k * BurstWindow
      PROVE  Now(h)[n] <= Now(h)[m] + k * few
  <2>1. /\ h[n] <= h[m] + k * few
        /\ n \in Nat /\ m \in Nat /\ h[n] \in Nat /\ h[m] \in Nat
    BY <1>2, <1>4 DEF Spaced, few
  <2>2. k * few \in Nat  BY <1>1
  <2>3. CASE m # 0
    <3>1. n # 0  BY <1>4, <2>1, <2>3
    <3>2. Now(h)[n] = h[n] + 1 /\ Now(h)[m] = h[m] + 1  BY <1>3, <2>3, <3>1
    <3> QED  BY <2>1, <2>2, <3>2
  <2>4. CASE n = 0
    BY <1>3, <1>4, <2>1, <2>2, <2>4
  <2>5. CASE m = 0 /\ n # 0
    <3>1. k # 0
      <4>1. 0 * BurstWindow = 0  BY <1>1
      <4> QED  BY <1>4, <2>1, <2>5, <4>1
    <3>2. /\ k - 1 \in Nat
          /\ k * few = few + (k - 1) * few /\ (k - 1) * few \in Nat
          /\ k * BurstWindow = BurstWindow + (k - 1) * BurstWindow
          /\ (k - 1) * BurstWindow \in Nat
      <4>1. k - 1 \in Nat  BY <3>1
      <4>2. \A j, x \in Nat : (j + 1) * x = x + j * x /\ j * x \in Nat  OBVIOUS
      <4>3. k = (k - 1) + 1  OBVIOUS
      <4> QED  BY <1>1, <4>1, <4>2, <4>3
    <3>3. h[n] + 1 <= few + (k - 1) * few
      <4>1. CASE n <= BurstWindow
        <5>1. h[n] <= h[BurstWindow] /\ h[BurstWindow] \in Nat  BY <1>1, <1>2, <4>1
        <5> QED  BY <1>1, <2>1, <3>2, <5>1
      <4>2. CASE ~(n <= BurstWindow)
        <5>1. BurstWindow <= n /\ n - BurstWindow <= (k - 1) * BurstWindow
          BY <1>1, <1>4, <2>1, <2>5, <3>2, <4>2
        <5>2. h[n] <= h[BurstWindow] + (k - 1) * few /\ h[BurstWindow] \in Nat
          BY <1>1, <1>2, <3>2, <5>1 DEF Spaced, few
        <5> QED  BY <1>1, <2>1, <3>2, <5>2
      <4> QED  BY <4>1, <4>2
    <3>4. Now(h)[n] = h[n] + 1 /\ Now(h)[m] = 0  BY <1>3, <2>5
    <3> QED  BY <1>1, <2>1, <3>2, <3>3, <3>4
  <2> QED  BY <2>3, <2>4, <2>5
<1> QED  BY <1>4 DEF Spaced, few

LEMMA OlderIsSpaced ==
  ASSUME NEW h, IsHistory(h, VelocityWindow), Spaced(h)
  PROVE  Spaced(Older(h))
<1> DEFINE few == BurstCount - 1
<1>1. few \in Nat /\ VelocityWindow \in Nat /\ BurstWindow \in Nat  BY GateAssumption
<1> HIDE DEF few
<1>2. /\ \A n \in LoopSpans : n \in Nat /\ h[n] \in Nat
      /\ h[0] = 0 /\ 0 \in LoopSpans
  BY <1>1 DEF IsHistory, LoopSpans
<1>3. /\ Older(h)[0] = 0
      /\ \A n \in LoopSpans : n # 0 => n - 1 \in LoopSpans /\ Older(h)[n] = h[n - 1]
  BY <1>1, OlderIsHistory DEF LoopSpans
<1>4. ASSUME NEW k \in Nat, NEW m \in LoopSpans, NEW n \in LoopSpans,
             m <= n, n - m <= k * BurstWindow
      PROVE  Older(h)[n] <= Older(h)[m] + k * few
  <2>1. m \in Nat /\ n \in Nat /\ k * few \in Nat /\ k * BurstWindow \in Nat
    BY <1>1, <1>2
  <2>2. CASE n = 0
    BY <1>3, <1>4, <2>1, <2>2
  <2>3. CASE m # 0
    <3>1. n # 0 /\ m - 1 <= n - 1 /\ (n - 1) - (m - 1) <= k * BurstWindow
      BY <1>4, <2>1, <2>3
    <3>2. m - 1 \in LoopSpans /\ n - 1 \in LoopSpans  BY <1>3, <2>3, <3>1
    <3>3. h[n - 1] <= h[m - 1] + k * few  BY <3>1, <3>2 DEF Spaced, few
    <3> QED  BY <1>3, <2>3, <3>1, <3>3
  <2>4. CASE m = 0 /\ n # 0
    <3>1. 0 <= n - 1 /\ (n - 1) - 0 <= k * BurstWindow  BY <1>4, <2>1, <2>4
    <3>2. n - 1 \in LoopSpans  BY <1>3, <2>4
    <3>3. h[n - 1] <= h[0] + k * few  BY <1>2, <3>1, <3>2 DEF Spaced, few
    <3> QED  BY <1>2, <1>3, <2>4, <3>3
  <2> QED  BY <2>2, <2>3, <2>4
<1> QED  BY <1>4 DEF Spaced, few

(* Messages so spaced never meet the burst limit of layer 4.               *)
LEMMA SpacedIsNoBurst ==
  ASSUME NEW h, IsHistory(h, VelocityWindow), Spaced(Now(h))
  PROVE  ~BurstBreached(h)
<1>1. /\ VelocityWindow \in Nat /\ LoopWindow \in Nat \ {0} /\ LoopWindow <= VelocityWindow
      /\ BurstCount - 1 \in Nat /\ LoopLimit \in Nat
  BY GateAssumption
<1>2. PICK k \in 1..LoopWindow : LoopWindow <= k * BurstWindow /\ k * (BurstCount - 1) < LoopLimit
  BY FrictionAssumption
<1>3. LoopWindow \in 1..VelocityWindow /\ LoopWindow \in LoopSpans /\ 0 \in LoopSpans /\ k \in Nat
  BY <1>1 DEF LoopSpans
<1>4. Now(h)[LoopWindow] = h[LoopWindow] + 1 /\ Now(h)[0] = 0 /\ h[LoopWindow] \in Nat
  BY <1>1, <1>3, NowIsHistory DEF IsHistory
<1>5. Now(h)[LoopWindow] <= 0 + k * (BurstCount - 1)
  <2>1. 0 <= LoopWindow /\ LoopWindow - 0 <= k * BurstWindow  BY <1>1, <1>2
  <2> QED  BY <1>3, <1>4, <2>1 DEF Spaced
<1>6. k * (BurstCount - 1) \in Nat  BY <1>1, <1>3
<1> QED  BY <1>1, <1>2, <1>4, <1>5, <1>6 DEF BurstBreached

LEMMA FrictionStep ==
  ASSUME IngressTypeOK, HistoryInv, FrictionInv, [IngressNext]_ingressVars
  PROVE  FrictionInv'
<1>0. /\ VelocityWindow \in Nat /\ BurstWindow \in Nat \ {0} /\ BurstCount \in Nat \ {0}
      /\ BurstWindow \in BurstSpans /\ BurstSpans \subseteq LoopSpans
      /\ IsHistory(bursts, BurstWindow) /\ IsHistory(recent, VelocityWindow)
  BY GateAssumption, SpansIncluded DEF HistoryInv
<1>1. \A n \in BurstSpans : bursts[n] \in 0..BurstCount /\ recent[n] \in Nat
  BY <1>0 DEF IngressTypeOK, IsHistory, LoopSpans
<1>2. ASSUME gate' = gate, tripped' = tripped, bursts' = bursts, recent' = recent, challenged' = challenged
      PROVE  FrictionInv'
  BY <1>2 DEF FrictionInv
<1>3. CASE ChallengeExpires \/ BurstWhilePending \/ WrongReply
  BY <1>3 DEF ChallengeExpires, BurstWhilePending, WrongReply, Pending, FrictionInv
<1>4. CASE HumanReplies
  BY <1>4 DEF HumanReplies, Pending, FrictionInv
<1>5. CASE BurstChallenged
  BY <1>5 DEF BurstChallenged, FrictionInv
<1>6. CASE PassesGate
  <2>1. gate' = gate /\ challenged' = challenged /\ bursts' = Capped(bursts) /\ Layer4 /\ ~Bursting
    BY <1>6 DEF PassesGate
  <2>2. SUFFICES ASSUME ~challenged
                 PROVE  FrictionInv'
    BY <2>1 DEF FrictionInv
  <2>3. /\ gate = "NORMAL" /\ tripped # "burst" /\ Spaced(recent)
        /\ \A n \in BurstSpans : recent[n] <= bursts[n]
    BY <2>2 DEF FrictionInv
  <2>4. bursts[BurstWindow] + 1 <= BurstCount - 1
    BY <1>0, <1>1, <2>1 DEF Bursting
  <2>5. /\ \A n \in BurstSpans : n # 0 => bursts'[n] = bursts[n] + 1
        /\ bursts'[0] = 0
    <3>1. \A n \in BurstSpans : bursts[n] <= bursts[BurstWindow]  BY <1>0 DEF IsHistory, BurstSpans
    <3>2. \A n \in BurstSpans : bursts[n] < BurstCount  BY <1>0, <1>1, <2>4, <3>1
    <3>3. \A n \in 0..BurstWindow : bursts[n] <= BurstCount  BY <1>1 DEF BurstSpans
    <3>4. /\ Capped(bursts)[0] = 0
          /\ \A n \in 1..BurstWindow : bursts[n] < BurstCount => Capped(bursts)[n] = bursts[n] + 1
      BY <1>0, <3>3, CappedIsHistory
    <3>5. \A n \in BurstSpans : n # 0 => n \in 1..BurstWindow  BY <1>0 DEF BurstSpans
    <3> QED  BY <2>1, <3>2, <3>4, <3>5
  <2>6. bursts'[BurstWindow] < BurstCount  BY <1>0, <1>1, <2>4, <2>5
  <2>7. CASE Waits
    <3>1. recent' = recent /\ tripped' = tripped  BY <2>7 DEF Waits, loopVars
    <3>2. \A n \in BurstSpans : recent[n] <= bursts'[n]
      <4> TAKE n \in BurstSpans
      <4>1. CASE n = 0  BY <1>0, <2>5, <4>1 DEF IsHistory
      <4>2. CASE n # 0
        <5>1. bursts'[n] = bursts[n] + 1 /\ recent[n] <= bursts[n] /\ recent[n] \in Nat /\ bursts[n] \in Nat
          BY <1>1, <2>3, <2>5, <4>2
        <5> QED  BY <5>1
      <4> QED  BY <4>1, <4>2
    <3> QED  BY <2>1, <2>3, <2>6, <3>1, <3>2 DEF FrictionInv
  <2>8. ASSUME NEW history, NEW state, Counts(history), Contain(history, state)
        PROVE  FrictionInv'
    <3>1. /\ recent' = Now(history) /\ IsHistory(history, VelocityWindow)
          /\ \A n \in 1..VelocityWindow : Now(history)[n] = history[n] + 1
          /\ Now(history)[0] = 0
          /\ \A n \in LoopSpans : history[n] <= recent[n]
      BY <2>8, CountsHistory, ContainSteps DEF IsHistory
    <3>2. \A n \in BurstSpans : history[n] \in Nat /\ history[n] <= bursts[n]
      <4> TAKE n \in BurstSpans
      <4>1. history[n] \in Nat  BY <1>0, <3>1 DEF IsHistory, LoopSpans
      <4>2. history[n] <= recent[n] /\ recent[n] <= bursts[n] /\ recent[n] \in Nat /\ bursts[n] \in Nat
        BY <1>0, <1>1, <2>3, <3>1
      <4> QED  BY <4>1, <4>2
    <3>3. Spaced(history)  BY <2>3, <2>8, NeverIsSpaced DEF Counts
    <3>4. history[BurstWindow] + 1 <= BurstCount - 1
      <4>1. /\ history[BurstWindow] \in Nat /\ bursts[BurstWindow] \in Nat
            /\ history[BurstWindow] <= bursts[BurstWindow]
        BY <1>0, <1>1, <3>2
      <4> QED  BY <1>0, <2>4, <4>1
    <3>5. Spaced(Now(history))  BY <3>1, <3>3, <3>4, NowIsSpaced
    <3>6. tripped' # "burst"
      BY <2>3, <2>8, <3>1, <3>5, SpacedIsNoBurst, ContainSteps
    <3>7. \A n \in BurstSpans : recent'[n] <= bursts'[n]
      <4> TAKE n \in BurstSpans
      <4>1. CASE n = 0  BY <2>5, <3>1, <4>1
      <4>2. CASE n # 0
        <5>1. n \in 1..VelocityWindow  BY <1>0, <4>2 DEF BurstSpans, LoopSpans
        <5>2. recent'[n] = history[n] + 1 /\ bursts'[n] = bursts[n] + 1
          BY <2>5, <3>1, <4>2, <5>1
        <5> QED  BY <1>1, <3>2, <5>2
      <4> QED  BY <4>1, <4>2
    <3> QED  BY <2>1, <2>3, <2>6, <3>1, <3>5, <3>6, <3>7 DEF FrictionInv
  <2> QED  BY <2>1, <2>7, <2>8, Layer4Steps
<1>7. CASE OwnerPauses
  BY <1>2, <1>7 DEF OwnerPauses, gateVars, loopVars, gateNotes
<1>8. CASE OwnerResumes
  <2>1. /\ gate' = gate /\ tripped' = tripped /\ bursts' = bursts /\ challenged' = challenged
        /\ recent' = Never(LoopSpans)
    BY <1>8 DEF OwnerResumes, gateVars
  <2>2. \A n \in BurstSpans : recent'[n] <= bursts[n]
    BY <1>0, <1>1, <2>1 DEF Never
  <2> QED  BY <2>1, <2>2, NeverIsSpaced DEF FrictionInv
<1>9. CASE Tick
  <2>1. /\ gate' = gate /\ tripped' = tripped /\ challenged' = challenged
        /\ bursts' = Older(bursts) /\ recent' = Older(recent)
    BY <1>9 DEF Tick
  <2>2. /\ Older(bursts)[0] = 0 /\ Older(recent)[0] = 0
        /\ \A n \in 1..BurstWindow : n - 1 \in 0..BurstWindow /\ Older(bursts)[n] = bursts[n - 1]
        /\ \A n \in 1..VelocityWindow : Older(recent)[n] = recent[n - 1]
        /\ \A n \in 0..BurstWindow : Older(bursts)[n] <= bursts[n]
        /\ IsHistory(Older(bursts), BurstWindow)
    BY <1>0, OlderIsHistory
  <2>3. SUFFICES ASSUME ~challenged
                 PROVE  FrictionInv'
    BY <2>1 DEF FrictionInv
  <2>4. /\ gate = "NORMAL" /\ tripped # "burst" /\ Spaced(recent)
        /\ bursts[BurstWindow] < BurstCount
        /\ \A n \in BurstSpans : recent[n] <= bursts[n]
    BY <2>3 DEF FrictionInv
  <2>5. Spaced(recent')  BY <1>0, <2>1, <2>4, OlderIsSpaced
  <2>6. bursts'[BurstWindow] < BurstCount
    <3>1. Older(bursts)[BurstWindow] <= bursts[BurstWindow] /\ Older(bursts)[BurstWindow] \in Nat
      BY <1>0, <2>2 DEF IsHistory, BurstSpans
    <3> QED  BY <1>0, <1>1, <2>1, <2>4, <3>1
  <2>7. \A n \in BurstSpans : recent'[n] <= bursts'[n]
    <3> TAKE n \in BurstSpans
    <3>1. CASE n = 0  BY <2>1, <2>2, <3>1
    <3>2. CASE n # 0
      <4>1. n \in 1..BurstWindow /\ n \in 1..VelocityWindow
        BY <1>0, <3>2 DEF BurstSpans, LoopSpans
      <4>2. n - 1 \in BurstSpans /\ bursts'[n] = bursts[n - 1] /\ recent'[n] = recent[n - 1]
        BY <2>1, <2>2, <4>1 DEF BurstSpans
      <4> QED  BY <2>4, <4>2
    <3> QED  BY <3>1, <3>2
  <2> QED  BY <2>1, <2>4, <2>5, <2>6, <2>7 DEF FrictionInv
<1>10. CASE UNCHANGED ingressVars
  BY <1>2, <1>10 DEF ingressVars, gateVars, loopVars, gateNotes
<1> QED  BY <1>3, <1>4, <1>5, <1>6, <1>7, <1>8, <1>9, <1>10 DEF IngressNext

(* Layer 4 answers whoever waited long enough, unless it must be silent.   *)
LEMMA PatientIsAnswered ==
  ASSUME Layer4, IngressTypeOK, HistoryInv, PatienceInv
  PROVE  /\ misses' = 0
         /\ cooldown' <= Patience
<1>0. /\ Patience \in Nat /\ LoopWindow \in LoopSpans /\ VelocityWindow \in LoopSpans
      /\ LoopWindow <= Patience /\ VelocityWindow <= Patience
      /\ quiet \in 0..Patience /\ cooldown \in Nat
      /\ LoopWindow \in Nat /\ VelocityWindow \in Nat
  BY GateAssumption, PatienceAssumption, SpansIncluded DEF IngressTypeOK
<1>1. cooldown <= Patience /\ (quiet = Patience => cooldown = 0)
  BY <1>0 DEF PatienceInv
<1>2. CASE Waits
  <2>1. quiet < Patience  BY <1>0, <1>1, <1>2 DEF Waits
  <2> QED  BY <1>1, <1>2, <2>1, DropSteps DEF Waits, loopVars
<1>3. ASSUME NEW history, NEW state, Counts(history), Contain(history, state)
      PROVE  misses' = 0 /\ cooldown' <= Patience
  <2>1. quiet = Patience => ~BurstBreached(history) /\ ~VelocityBreached(history)
    <3>1. SUFFICES ASSUME quiet = Patience
                   PROVE  ~BurstBreached(history) /\ ~VelocityBreached(history)
      OBVIOUS
    <3>2. history[LoopWindow] = 0 /\ history[VelocityWindow] = 0
      BY <1>0, <1>3, <3>1 DEF Counts, Never, PatienceInv
    <3> QED  BY <3>2, GateAssumption, PatienceAssumption DEF BurstBreached, VelocityBreached
  <2>2. CASE BurstBreached(history) \/ VelocityBreached(history)
    <3>1. /\ Dropped /\ quiet < Patience
          /\ \E level \in 1..3 : cooldown' = Cooldowns[level]
      BY <1>0, <1>3, <2>1, <2>2, ContainSteps
    <3> QED  BY <3>1, DropSteps, PatienceAssumption
  <2>3. CASE ~BurstBreached(history) /\ ~VelocityBreached(history)
    BY <1>1, <1>3, <2>3, ContainSteps, DropSteps
  <2> QED  BY <2>2, <2>3
<1> QED  BY <1>2, <1>3, Layer4Steps

LEMMA PatienceStep ==
  ASSUME IngressTypeOK, HistoryInv, PatienceInv, [IngressNext]_ingressVars
  PROVE  PatienceInv'
<1>0. /\ Patience \in Nat /\ ChallengeTTL \in Nat /\ BurstWindow \in Nat /\ VelocityWindow \in Nat
      /\ ChallengeTTL < Patience /\ BurstWindow <= Patience /\ BurstCount > 1 /\ BurstCount \in Nat
      /\ quiet \in 0..Patience /\ cooldown \in Nat /\ issued \in 0..(ChallengeTTL + 1)
      /\ misses \in {0, 1} /\ BurstWindow \in BurstSpans
      /\ IsHistory(bursts, BurstWindow) /\ IsHistory(recent, VelocityWindow)
  BY GateAssumption, PatienceAssumption, SpansIncluded DEF IngressTypeOK, HistoryInv, PatienceInv
<1>1. IngressTypeOK' /\ HistoryInv'  BY IngressTypeStep
<1>2. /\ bursts'[0] = 0 /\ recent'[0] = 0
      /\ \A n \in BurstSpans : n \in Nat
      /\ \A n \in LoopSpans : n \in Nat
  BY <1>0, <1>1 DEF HistoryInv, IsHistory, BurstSpans, LoopSpans
(* After a message nothing lies further back than the last message.        *)
<1>3. ASSUME quiet' = 0, cooldown' <= Patience, cooldown' \in Nat, misses' \in {0, 1},
             Pending' => misses' = 0 /\ (quiet' <= issued' \/ Expired')
      PROVE  PatienceInv'
  <2>1. \A n \in BurstSpans \cup LoopSpans : n <= quiet' => n = 0  BY <1>2, <1>3
  <2>2. cooldown' + quiet' <= Patience  BY <1>3
  <2> QED  BY <1>2, <1>3, <2>1, <2>2 DEF PatienceInv
<1>4. cooldown <= Patience  BY <1>0 DEF PatienceInv
<1>5. ASSUME StoppedAtGate
      PROVE  /\ quiet' = 0 /\ cooldown' = cooldown /\ misses' \in {0, misses + 1}
             /\ quiet < Patience => misses' = 0
  BY <1>5, DropSteps DEF StoppedAtGate, loopVars
(* A challenge that is not expired was issued less than Patience ago.      *)
<1>6. Pending /\ ~Expired => quiet < Patience
  BY <1>0 DEF PatienceInv, Expired
<1>7. Bursting => quiet < Patience
  <2>1. quiet = Patience => bursts[BurstWindow] = 0  BY <1>0 DEF PatienceInv
  <2> QED  BY <1>0, <2>1 DEF Bursting
<1>8. issued' \in Nat  BY <1>0, <1>1 DEF IngressTypeOK
<1>9. CASE ChallengeExpires
  <2>1. StoppedAtGate /\ Pending /\ ~Pending'  BY <1>9 DEF ChallengeExpires, Pending
  <2>2. misses = 0  BY <2>1 DEF PatienceInv
  <2> QED  BY <1>0, <1>3, <1>4, <1>5, <2>1, <2>2
<1>10. CASE BurstWhilePending
  <2>1. StoppedAtGate /\ Pending /\ ~Expired /\ ~Pending'  BY <1>10 DEF BurstWhilePending, Pending
  <2> QED  BY <1>0, <1>3, <1>4, <1>5, <1>6, <2>1
<1>11. CASE WrongReply
  <2>1. StoppedAtGate /\ Pending /\ ~Expired  BY <1>11 DEF WrongReply
  <2> QED  BY <1>0, <1>3, <1>4, <1>5, <1>6, <1>8, <2>1
<1>12. CASE BurstChallenged
  <2>1. StoppedAtGate /\ Bursting  BY <1>12 DEF BurstChallenged
  <2> QED  BY <1>0, <1>3, <1>4, <1>5, <1>7, <1>8, <2>1
<1>13. CASE HumanReplies \/ PassesGate
  <2>1. Layer4  BY <1>13 DEF HumanReplies, PassesGate
  <2>2. misses' = 0 /\ cooldown' <= Patience  BY <2>1, PatientIsAnswered
  <2>3. quiet' = 0
    <3>1. Waits => quiet' = 0  BY DropSteps DEF Waits
    <3> QED  BY <2>1, <3>1, ContainSteps, Layer4Steps
  <2>4. cooldown' \in Nat  BY <1>1 DEF IngressTypeOK
  <2> QED  BY <1>3, <1>8, <2>2, <2>3, <2>4
<1>14. CASE OwnerPauses
  BY <1>14 DEF OwnerPauses, gateVars, loopVars, gateNotes, PatienceInv, Pending, Expired
<1>15. CASE OwnerResumes
  <2>1. /\ gate' = gate /\ issued' = issued /\ bursts' = bursts /\ quiet' = quiet /\ misses' = misses
        /\ cooldown' = 0 /\ recent' = Never(LoopSpans)
    BY <1>15 DEF OwnerResumes, gateVars
  <2>2. \A n \in LoopSpans : recent'[n] = 0  BY <2>1 DEF Never
  <2> QED  BY <2>1, <2>2 DEF PatienceInv, Pending, Expired
<1>16. CASE Tick
  <2>1. /\ gate' = gate /\ misses' = misses
        /\ bursts' = Older(bursts) /\ recent' = Older(recent)
        /\ cooldown' = Less(cooldown) /\ quiet' = UpTo(Patience, quiet)
        /\ issued' = UpTo(ChallengeTTL + 1, issued)
    BY <1>16 DEF Tick
  <2>2. quiet' \in Nat /\ quiet' <= quiet + 1  BY <1>0, <2>1 DEF UpTo
  <2>3. ASSUME NEW n \in BurstSpans, n <= quiet'
        PROVE  bursts'[n] = 0
    <3>1. CASE n = 0  BY <1>2, <3>1
    <3>2. CASE n # 0
      <4>1. n \in 1..BurstWindow /\ n - 1 \in BurstSpans  BY <1>0, <3>2 DEF BurstSpans
      <4>2. bursts'[n] = bursts[n - 1]  BY <1>0, <2>1, <4>1, OlderIsHistory
      <4>3. n - 1 <= quiet  BY <1>0, <2>2, <2>3, <4>1
      <4> QED  BY <4>1, <4>2, <4>3 DEF PatienceInv
    <3> QED  BY <3>1, <3>2
  <2>4. ASSUME NEW n \in LoopSpans, n <= quiet'
        PROVE  recent'[n] = 0
    <3>1. CASE n = 0  BY <1>2, <3>1
    <3>2. CASE n # 0
      <4>1. n \in 1..VelocityWindow /\ n - 1 \in LoopSpans  BY <1>0, <3>2 DEF LoopSpans
      <4>2. recent'[n] = recent[n - 1]  BY <1>0, <2>1, <4>1, OlderIsHistory
      <4>3. n - 1 <= quiet  BY <1>0, <2>2, <2>4, <4>1
      <4> QED  BY <4>1, <4>2, <4>3 DEF PatienceInv
    <3> QED  BY <3>1, <3>2
  <2>5. cooldown' = 0 \/ cooldown' + quiet' <= Patience
    BY <1>0, <2>1, <2>2 DEF PatienceInv, Less
  <2>6. Pending' => misses' = 0 /\ (quiet' <= issued' \/ Expired')
    BY <1>0, <2>1, <2>2 DEF PatienceInv, Pending, Expired, UpTo
  <2> QED  BY <1>0, <2>1, <2>3, <2>4, <2>5, <2>6 DEF PatienceInv
<1>17. CASE UNCHANGED ingressVars
  BY <1>17 DEF ingressVars, gateVars, loopVars, gateNotes, PatienceInv, Pending, Expired
<1> QED
  BY <1>9, <1>10, <1>11, <1>12, <1>13, <1>14, <1>15, <1>16, <1>17 DEF IngressNext

-----------------------------------------------------------------------------
(* The theorems                                                            *)

LEMMA IngressStarts ==
  IngressInit => /\ IngressTypeOK /\ HistoryInv
                 /\ TurnsInv /\ TurnsBounded /\ FrictionInv /\ PatienceInv
<1> SUFFICES ASSUME IngressInit
             PROVE  /\ IngressTypeOK /\ HistoryInv
                    /\ TurnsInv /\ TurnsBounded /\ FrictionInv /\ PatienceInv
  OBVIOUS
<1>1. /\ bursts = Never(BurstSpans) /\ recent = Never(LoopSpans) /\ turns = Never(TurnSpans)
      /\ gate = "NORMAL" /\ issued = 0 /\ peer = "ACTIVE" /\ cooldown = 0 /\ violations = 0
      /\ used = 0 /\ paused = FALSE /\ quiet = Patience /\ challenged = FALSE
      /\ tripped = "never" /\ misses = 0
  BY DEF IngressInit
<1>2. /\ BurstWindow \in Nat /\ BurstCount \in Nat \ {0} /\ VelocityWindow \in Nat
      /\ LoopWindow \in Nat /\ LoopLimit \in Nat \ {0} /\ Budget \in Nat /\ Patience \in Nat
      /\ ChallengeTTL \in Nat
  BY GateAssumption
<1>3. HistoryInv
  BY <1>1, <1>2, NeverIsHistory DEF HistoryInv, BurstSpans, LoopSpans, TurnSpans
<1>4. /\ \A n \in BurstSpans : bursts[n] = 0 /\ recent[n] = 0
      /\ \A n \in LoopSpans : recent[n] = 0
      /\ \A n \in TurnSpans : turns[n] = 0 /\ recent[n] = 0
  BY <1>1, SpansIncluded DEF Never
<1>5. IngressTypeOK
  <2>1. /\ bursts \in [BurstSpans -> 0..BurstCount]
        /\ recent \in [LoopSpans -> Nat] /\ turns \in [TurnSpans -> Nat]
    BY <1>1, <1>2 DEF Never
  <2>2. issued \in 0..(ChallengeTTL + 1) /\ used \in 0..Budget /\ quiet \in 0..Patience
    BY <1>1, <1>2
  <2>3. violations \in 0..3 /\ cooldown \in Nat /\ misses \in Nat  BY <1>1
  <2> QED  BY <1>1, <2>1, <2>2, <2>3, Zenon DEF IngressTypeOK
<1>6. TurnsInv /\ TurnsBounded
  BY <1>1, <1>2, <1>4, SpansIncluded DEF TurnsInv, TurnsBounded
<1>7. FrictionInv
  BY <1>1, <1>2, <1>4, SpansIncluded, NeverIsSpaced DEF FrictionInv
<1>8. PatienceInv
  BY <1>1, <1>4 DEF PatienceInv, Pending
<1> QED  BY <1>3, <1>5, <1>6, <1>7, <1>8

(* Type correctness of the gates: for any windows, limits and cooldowns,   *)
(* every state of a peer is one the code's records can hold.               *)
THEOREM IngressTypeCorrect == IngressSpec => []IngressTypeOK
<1>1. IngressInit => IngressTypeOK /\ HistoryInv  BY IngressStarts
<1>2. IngressTypeOK /\ HistoryInv /\ [IngressNext]_ingressVars => IngressTypeOK' /\ HistoryInv'
  BY IngressTypeStep
<1> QED  BY <1>1, <1>2, PTL DEF IngressSpec

(* Loop containment and its quarantine bound the turns of a peer (layer 4, *)
(* check_loop_containment): for any windows and limits, if every cooldown  *)
(* outlasts the burst window, no spacing of messages and no sequence of    *)
(* challenges and quarantines gives it one turn more.                      *)
THEOREM TurnsAreBounded == IngressSpec => []TurnsBounded
<1> DEFINE Inv == IngressTypeOK /\ HistoryInv /\ TurnsInv /\ TurnsBounded
<1>1. IngressInit => Inv  BY IngressStarts
<1>2. Inv /\ [IngressNext]_ingressVars => Inv'  BY IngressTypeStep, TurnsStep
<1> QED  BY <1>1, <1>2, PTL DEF IngressSpec

(* Gate C comes before layer 4 (evaluate_ingress): for any numbers that    *)
(* satisfy FrictionAssumption, as the code's just do, nobody is            *)
(* quarantined for a burst who has not been challenged.                    *)
THEOREM FrictionComesFirst == IngressSpec => []FrictionBeforeBurstQuarantine
<1> DEFINE Inv == IngressTypeOK /\ HistoryInv /\ FrictionInv
<1>1. IngressInit => Inv  BY IngressStarts
<1>2. Inv /\ [IngressNext]_ingressVars => Inv'  BY IngressTypeStep, FrictionStep
<1>3. Inv => FrictionBeforeBurstQuarantine  BY DEF FrictionInv, FrictionBeforeBurstQuarantine
<1> QED  BY <1>1, <1>2, <1>3, PTL DEF IngressSpec

(* Nobody is locked out by the gates (evaluate and check_loop_containment):*)
(* whatever state a peer's earlier messages left it in, one who waits out  *)
(* windows, challenge and cooldown loses one message in a row at most.     *)
THEOREM PatientPeerIsServed == IngressSpec => []PatientPeerMissesOneMessage
<1> DEFINE Inv == IngressTypeOK /\ HistoryInv /\ PatienceInv
<1>1. IngressInit => Inv  BY IngressStarts
<1>2. Inv /\ [IngressNext]_ingressVars => Inv'  BY IngressTypeStep, PatienceStep
<1>3. Inv => PatientPeerMissesOneMessage  BY DEF PatienceInv, PatientPeerMissesOneMessage
<1> QED  BY <1>1, <1>2, <1>3, PTL DEF IngressSpec
-----------------------------------------------------------------------------
(***************************************************************************)
(* The receipts of a bank app: ReaderMatch                                 *)
(***************************************************************************)

(* Between SELECT and UPDATE, and while a receipt is still to be placed.   *)
HasSelected(h) == reading[h] \in {"update", "resync"}
HasReceipt(h)  == reading[h] \in {"select", "update", "supabase", "resync"}

(* What a process has selected is one order, and it is PENDING unless      *)
(* somebody has written it since.                                          *)
SelectionInv ==
    \A h \in Readers :
        /\ \A x, y \in found[h] : x = y
        /\ HasSelected(h) => \A x \in found[h] \ between : orderStatus[x] = "PENDING"

(* What a receipt has paid is not PENDING again, and two receipts have     *)
(* only paid one order if it was written between SELECT and UPDATE.        *)
PaymentInv ==
    /\ \A n \in Receipts : \A x \in paidFor[n] : orderStatus[x] # "PENDING"
    /\ \A m, n \in Receipts : m # n => paidFor[m] \cap paidFor[n] \subseteq between

(* A receipt that is posted once is in the hands of one process, and has   *)
(* paid nothing until that process has placed it.                          *)
ReceiptInv ==
    /\ \A h \in Readers : receipt[h] \subseteq posted /\ \A m, n \in receipt[h] : m = n
    /\ \A n \in Receipts \ Resendable :
          /\ \A h, g \in Readers : n \in receipt[h] /\ n \in receipt[g] => h = g
          /\ \A h \in Readers : n \in receipt[h] /\ HasReceipt(h) => paidFor[n] = {}
          /\ paidFor[n] # {} => n \in posted
          /\ \A x, y \in paidFor[n] : x = y

(* A purchase that is about to be reported has been paid by a receipt, or  *)
(* its UPDATE failed.                                                      *)
Explained(x) == x \in unwritten \/ \E n \in Receipts : x \in paidFor[n]

ReportInv ==
    /\ \A h \in Readers : HasReceipt(h) => \E n \in Receipts : n \in receipt[h]
    /\ \A h \in Readers : reading[h] = "report" => \A x \in found[h] : Explained(x)
    /\ \A x \in reported : Explained(x)

ReaderInv == ReaderTypeOK /\ SelectionInv /\ PaymentInv /\ ReceiptInv /\ ReportInv

-----------------------------------------------------------------------------
LEMMA NewestIsOne ==
  ASSUME ReaderTypeOK
  PROVE  /\ Newest \subseteq Orders
         /\ \A x \in Newest : orderStatus[x] = "PENDING"
         /\ \A x, y \in Newest : x = y
<1>1. Newest \subseteq Orders /\ \A x \in Newest : orderStatus[x] = "PENDING"
  BY DEF Newest
<1>2. \A x, y \in Newest : x <= y /\ y <= x
  BY DEF Newest
<1>3. Orders \subseteq Nat
  BY ReaderAssumption
<1>4. QED
  BY <1>1, <1>2, <1>3

LEMMA ReaderInit1 == ReaderInit => ReaderInv
<1> SUFFICES ASSUME ReaderInit PROVE ReaderInv
  OBVIOUS
<1>1. ReaderTypeOK
  BY DEF ReaderInit, ReaderTypeOK
<1>2. SelectionInv
  BY DEF ReaderInit, SelectionInv
<1>3. PaymentInv
  BY DEF ReaderInit, PaymentInv
<1>4. ReceiptInv
  BY DEF ReaderInit, ReceiptInv
<1>5. ReportInv
  BY DEF ReaderInit, ReportInv, HasReceipt
<1>6. QED
  BY <1>1, <1>2, <1>3, <1>4, <1>5 DEF ReaderInv

LEMMA ArrivalStep ==
  ASSUME ReaderInv, NEW h \in Readers, NEW n \in Receipts, NotificationArrives(h, n)
  PROVE  ReaderInv'
<1>1. /\ reading[h] = "idle" /\ (n \in posted => n \in Resendable)
      /\ reading' = [reading EXCEPT ![h] = "select"]
      /\ receipt' = [receipt EXCEPT ![h] = {n}]
      /\ posted' = posted \cup {n}
      /\ UNCHANGED <<orderStatus, found, paidFor, reported, between, unwritten>>
  BY DEF NotificationArrives
<1>2. ReaderTypeOK'
  BY <1>1 DEF ReaderInv, ReaderTypeOK
<1>3. /\ reading'[h] = "select" /\ receipt'[h] = {n}
      /\ \A g \in Readers \ {h} : reading'[g] = reading[g] /\ receipt'[g] = receipt[g]
  BY <1>1 DEF ReaderInv, ReaderTypeOK
<1>4. SelectionInv'
  BY <1>1, <1>3 DEF ReaderInv, SelectionInv, HasSelected
<1>5. PaymentInv'
  BY <1>1 DEF ReaderInv, PaymentInv
<1>6. ReceiptInv'
  <2>1. \A g \in Readers : /\ receipt'[g] \subseteq posted'
                           /\ \A k, m \in receipt'[g] : k = m
    BY <1>1, <1>3 DEF ReaderInv, ReceiptInv
  <2>2. ASSUME NEW m \in Receipts \ Resendable
        PROVE  /\ \A f, g \in Readers : m \in receipt'[f] /\ m \in receipt'[g] => f = g
               /\ \A g \in Readers : m \in receipt'[g] /\ HasReceipt(g)' => paidFor'[m] = {}
               /\ paidFor'[m] # {} => m \in posted'
               /\ \A x, y \in paidFor'[m] : x = y
    <3>1. CASE m = n
      <4>1. n \notin posted
        BY <1>1, <2>2, <3>1
      <4>2. paidFor[n] = {} /\ \A g \in Readers : n \notin receipt[g]
        BY <2>2, <3>1, <4>1 DEF ReaderInv, ReceiptInv
      <4>3. QED
        BY <1>1, <1>3, <3>1, <4>2
    <3>2. CASE m # n
      <4>1. \A g \in Readers : m \in receipt'[g] => m \in receipt[g] /\ g # h
        BY <1>3, <3>2
      <4>2. \A g \in Readers \ {h} : HasReceipt(g)' <=> HasReceipt(g)
        BY <1>3 DEF HasReceipt
      <4>3. QED
        BY <1>1, <2>2, <4>1, <4>2 DEF ReaderInv, ReceiptInv
    <3>3. QED
      BY <3>1, <3>2
  <2>3. QED
    BY <2>1, <2>2 DEF ReceiptInv
<1>7. ReportInv'
  BY <1>1, <1>3 DEF ReaderInv, ReportInv, HasReceipt, Explained
<1>8. QED
  BY <1>2, <1>4, <1>5, <1>6, <1>7 DEF ReaderInv

LEMMA SelectStep ==
  ASSUME ReaderInv, NEW h \in Readers,
         NEW at \in {"select", "supabase"}, NEW next \in {"update", "resync"},
         NEW otherwise \in {"supabase", "idle"}, SelectOrder(h, at, next, otherwise)
  PROVE  ReaderInv'
<1>1. /\ reading[h] \in {"select", "supabase"}
      /\ UNCHANGED <<orderStatus, receipt, posted, paidFor, reported, between, unwritten>>
  BY DEF SelectOrder
<1>2. \/ found' = [found EXCEPT ![h] = Newest] /\ reading' = [reading EXCEPT ![h] = next]
      \/ found' = found /\ reading' = [reading EXCEPT ![h] = otherwise]
  BY DEF SelectOrder
<1>3. /\ \A g \in Readers \ {h} : reading'[g] = reading[g] /\ found'[g] = found[g]
      /\ \/ found'[h] = Newest /\ reading'[h] \in {"update", "resync"}
         \/ found'[h] = found[h] /\ reading'[h] \in {"supabase", "idle"}
  BY <1>2 DEF ReaderInv, ReaderTypeOK
<1>4. /\ Newest \subseteq Orders /\ \A x \in Newest : orderStatus[x] = "PENDING"
      /\ \A x, y \in Newest : x = y
  BY NewestIsOne DEF ReaderInv
<1>5. ReaderTypeOK'
  BY <1>1, <1>2, <1>4 DEF ReaderInv, ReaderTypeOK
<1>6. SelectionInv'
  <2> SUFFICES ASSUME NEW g \in Readers
               PROVE  /\ \A x, y \in found'[g] : x = y
                      /\ HasSelected(g)' =>
                            \A x \in found'[g] \ between' : orderStatus'[x] = "PENDING"
    BY DEF SelectionInv
  <2>1. CASE g # h
    BY <1>1, <1>3, <2>1 DEF ReaderInv, SelectionInv, HasSelected
  <2>2. CASE g = h /\ found'[h] = Newest
    BY <1>1, <1>4, <2>2
  <2>3. CASE g = h /\ found'[h] = found[h] /\ reading'[h] \in {"supabase", "idle"}
    BY <2>3 DEF ReaderInv, SelectionInv, HasSelected
  <2>4. QED
    BY <1>3, <2>1, <2>2, <2>3
<1>7. PaymentInv'
  BY <1>1 DEF ReaderInv, PaymentInv
<1>8. \A g \in Readers : HasReceipt(g)' => HasReceipt(g)
  BY <1>1, <1>3 DEF HasReceipt
<1>9. ReceiptInv'
  BY <1>1, <1>8 DEF ReaderInv, ReceiptInv
<1>10. ReportInv'
  BY <1>1, <1>3, <1>8 DEF ReaderInv, ReportInv, Explained
<1>11. QED
  BY <1>5, <1>6, <1>7, <1>9, <1>10 DEF ReaderInv

(* A write to the status of x by anybody: whoever has selected x finds it  *)
(* in between.                                                             *)
LEMMA OvertakenSelections ==
  ASSUME ReaderInv, NEW x \in Orders, NEW status, NEW S \in SUBSET Readers,
         orderStatus' = [orderStatus EXCEPT ![x] = status], found' = found,
         \A g \in Readers : HasSelected(g)' => HasSelected(g) /\ g \in S,
         Overtakes(x, S)
  PROVE  SelectionInv' /\ between \subseteq between'
<1>1. between \subseteq between'
  BY DEF Overtakes
<1>2. \A y \in Orders \ {x} : orderStatus'[y] = orderStatus[y]
  BY DEF ReaderInv, ReaderTypeOK
<1>3. \A g \in Readers : HasSelected(g)' /\ x \in found[g] => x \in between'
  BY DEF Overtakes, HasSelected
<1>4. \A g \in Readers : found[g] \subseteq Orders
  BY DEF ReaderInv, ReaderTypeOK
<1>5. QED
  BY <1>1, <1>2, <1>3, <1>4 DEF ReaderInv, SelectionInv

LEMMA MarkPaidStep ==
  ASSUME ReaderInv, NEW h \in Readers, MarkPaid(h)
  PROVE  ReaderInv'
<1>1. /\ HasSelected(h)
      /\ reading' = [reading EXCEPT ![h] = "report"]
      /\ UNCHANGED <<found, receipt, posted, reported>>
  BY DEF MarkPaid, HasSelected
<1>2. /\ reading'[h] = "report"
      /\ \A g \in Readers \ {h} : reading'[g] = reading[g]
  BY <1>1 DEF ReaderInv, ReaderTypeOK
<1>3. PICK x \in found[h] :
          \/ /\ orderStatus' = [orderStatus EXCEPT ![x] = "PAID"]
             /\ paidFor' = [n \in Receipts |->
                    IF n \in receipt[h] THEN paidFor[n] \cup {x} ELSE paidFor[n]]
             /\ Overtakes(x, Readers \ {h})
             /\ UNCHANGED unwritten
          \/ /\ unwritten' = unwritten \cup {x}
             /\ UNCHANGED <<orderStatus, paidFor, between>>
  BY DEF MarkPaid
<1>4. x \in Orders /\ found[h] = {x}
  BY DEF ReaderInv, ReaderTypeOK, SelectionInv
<1>5. HasReceipt(h) /\ \A g \in Readers : HasReceipt(g)' => HasReceipt(g) /\ g # h
  BY <1>1, <1>2 DEF HasReceipt, HasSelected
<1>6. \A g \in Readers : HasSelected(g)' => HasSelected(g) /\ g \in Readers \ {h}
  BY <1>2 DEF HasSelected
<1>7. CASE /\ orderStatus' = [orderStatus EXCEPT ![x] = "PAID"]
           /\ paidFor' = [n \in Receipts |->
                  IF n \in receipt[h] THEN paidFor[n] \cup {x} ELSE paidFor[n]]
           /\ Overtakes(x, Readers \ {h})
           /\ UNCHANGED unwritten
  <2>1. SelectionInv' /\ between \subseteq between'
    BY <1>1, <1>4, <1>6, <1>7, OvertakenSelections
  <2>2. between' \subseteq Orders
    BY <1>4, <1>7 DEF Overtakes, ReaderInv, ReaderTypeOK
  <2>3. ReaderTypeOK'
    BY <1>1, <1>4, <1>7, <2>2 DEF ReaderInv, ReaderTypeOK
  <2>4. /\ \A n \in Receipts : paidFor[n] \subseteq paidFor'[n] /\ paidFor'[n] \subseteq paidFor[n] \cup {x}
        /\ \A n \in Receipts : n \in receipt[h] => x \in paidFor'[n]
        /\ \A n \in Receipts : n \notin receipt[h] => paidFor'[n] = paidFor[n]
    BY <1>7
  <2>5. orderStatus'[x] = "PAID" /\ \A y \in Orders \ {x} : orderStatus'[y] = orderStatus[y]
    BY <1>4, <1>7 DEF ReaderInv, ReaderTypeOK
  <2>6. PaymentInv'
    <3>1. \A n \in Receipts : \A y \in paidFor'[n] : orderStatus'[y] # "PENDING"
      BY <2>4, <2>5 DEF ReaderInv, ReaderTypeOK, PaymentInv
    <3>2. (\E n \in Receipts : x \in paidFor[n]) => x \in between
      BY <1>1, <1>4 DEF ReaderInv, SelectionInv, PaymentInv
    <3>3. ASSUME NEW m \in Receipts, NEW n \in Receipts, m # n, NEW y,
                 y \in paidFor'[m], y \in paidFor'[n]
          PROVE  y \in between'
      <4>1. CASE y \in paidFor[m] /\ y \in paidFor[n]
        BY <2>1, <3>3, <4>1 DEF ReaderInv, PaymentInv
      <4>2. CASE y \notin paidFor[m] /\ y \notin paidFor[n]
        <5>1. m \in receipt[h] /\ n \in receipt[h]
          BY <2>4, <3>3, <4>2
        <5>2. QED
          BY <3>3, <5>1 DEF ReaderInv, ReceiptInv
      <4>3. CASE (y \in paidFor[m]) # (y \in paidFor[n])
        BY <2>1, <2>4, <3>2, <3>3, <4>3
      <4>4. QED
        BY <4>1, <4>2, <4>3
    <3>4. QED
      BY <3>1, <3>3 DEF PaymentInv
  <2>7. ReceiptInv'
    <3> SUFFICES ASSUME NEW n \in Receipts \ Resendable
                 PROVE  /\ \A g \in Readers : n \in receipt'[g] /\ HasReceipt(g)' => paidFor'[n] = {}
                        /\ paidFor'[n] # {} => n \in posted'
                        /\ \A y, z \in paidFor'[n] : y = z
      BY <1>1 DEF ReaderInv, ReceiptInv
    <3>1. CASE n \in receipt[h]
      <4>1. paidFor[n] = {} /\ n \in posted /\ \A g \in Readers : n \in receipt[g] => g = h
        BY <1>5, <3>1 DEF ReaderInv, ReceiptInv
      <4>2. \A y \in paidFor'[n] : y = x
        BY <2>4, <4>1
      <4>3. QED
        BY <1>1, <1>5, <4>1, <4>2
    <3>2. CASE n \notin receipt[h]
      <4>1. paidFor'[n] = paidFor[n]
        BY <2>4, <3>2
      <4>2. QED
        BY <1>1, <1>5, <4>1 DEF ReaderInv, ReceiptInv
    <3>3. QED
      BY <3>1, <3>2
  <2>8. ReportInv'
    <3>1. \A y : Explained(y) => Explained(y)'
      BY <1>7, <2>4 DEF Explained
    <3>2. Explained(x)'
      <4>1. PICK n \in Receipts : n \in receipt[h]
        BY <1>5 DEF ReaderInv, ReportInv
      <4>2. QED
        BY <2>4, <4>1 DEF Explained
    <3>3. QED
      BY <1>1, <1>2, <1>4, <1>5, <3>1, <3>2 DEF ReaderInv, ReportInv
  <2>9. QED
    BY <2>1, <2>3, <2>6, <2>7, <2>8 DEF ReaderInv
<1>8. CASE unwritten' = unwritten \cup {x} /\ UNCHANGED <<orderStatus, paidFor, between>>
  <2>1. ReaderTypeOK'
    BY <1>1, <1>4, <1>8 DEF ReaderInv, ReaderTypeOK
  <2>2. SelectionInv'
    BY <1>1, <1>6, <1>8 DEF ReaderInv, SelectionInv
  <2>3. PaymentInv'
    BY <1>8 DEF ReaderInv, PaymentInv
  <2>4. ReceiptInv'
    BY <1>1, <1>5, <1>8 DEF ReaderInv, ReceiptInv
  <2>5. ReportInv'
    <3>1. Explained(x)' /\ \A y : Explained(y) => Explained(y)'
      BY <1>8 DEF Explained
    <3>2. QED
      BY <1>1, <1>2, <1>4, <1>5, <3>1 DEF ReaderInv, ReportInv
  <2>6. QED
    BY <2>1, <2>2, <2>3, <2>4, <2>5 DEF ReaderInv
<1>9. QED
  BY <1>3, <1>7, <1>8

LEMMA ReportStep ==
  ASSUME ReaderInv, NEW h \in Readers, Report(h)
  PROVE  ReaderInv'
<1>1. /\ reading[h] = "report"
      /\ reported' = reported \cup found[h]
      /\ reading' = [reading EXCEPT ![h] = "idle"]
      /\ found' = [found EXCEPT ![h] = {}]
      /\ receipt' = [receipt EXCEPT ![h] = {}]
      /\ UNCHANGED <<orderStatus, posted, paidFor, between, unwritten>>
  BY DEF Report
<1>2. /\ reading'[h] = "idle" /\ found'[h] = {} /\ receipt'[h] = {}
      /\ \A g \in Readers \ {h} :
            reading'[g] = reading[g] /\ found'[g] = found[g] /\ receipt'[g] = receipt[g]
  BY <1>1 DEF ReaderInv, ReaderTypeOK
<1>3. ReaderTypeOK'
  BY <1>1 DEF ReaderInv, ReaderTypeOK
<1>4. SelectionInv'
  BY <1>1, <1>2 DEF ReaderInv, SelectionInv, HasSelected
<1>5. PaymentInv'
  BY <1>1 DEF ReaderInv, PaymentInv
<1>6. ReceiptInv'
  BY <1>1, <1>2 DEF ReaderInv, ReceiptInv, HasReceipt
<1>7. ReportInv'
  BY <1>1, <1>2 DEF ReaderInv, ReportInv, HasReceipt, Explained
<1>8. QED
  BY <1>3, <1>4, <1>5, <1>6, <1>7 DEF ReaderInv

LEMMA CancelStep ==
  ASSUME ReaderInv, NEW x \in Orders, SellerCancels(x)
  PROVE  ReaderInv'
<1>1. /\ orderStatus' = [orderStatus EXCEPT ![x] = "CANCELLED"]
      /\ Overtakes(x, Readers)
      /\ UNCHANGED <<reading, found, receipt, posted, paidFor, reported, unwritten>>
  BY DEF SellerCancels
<1>2. between' \subseteq Orders
  BY <1>1 DEF Overtakes, ReaderInv, ReaderTypeOK
<1>3. ReaderTypeOK'
  BY <1>1, <1>2 DEF ReaderInv, ReaderTypeOK
<1>4. \A g \in Readers : HasSelected(g)' => HasSelected(g) /\ g \in Readers
  BY <1>1 DEF HasSelected
<1>5. SelectionInv' /\ between \subseteq between'
  BY <1>1, <1>4, OvertakenSelections
<1>6. PaymentInv'
  <2>1. \A y \in Orders : orderStatus'[y] = "PENDING" => orderStatus[y] = "PENDING"
    BY <1>1 DEF ReaderInv, ReaderTypeOK
  <2>2. \A n \in Receipts : paidFor[n] \subseteq Orders
    BY DEF ReaderInv, ReaderTypeOK
  <2>3. QED
    BY <1>1, <1>5, <2>1, <2>2 DEF ReaderInv, PaymentInv
<1>7. ReceiptInv'
  BY <1>1 DEF ReaderInv, ReceiptInv, HasReceipt
<1>8. ReportInv'
  BY <1>1 DEF ReaderInv, ReportInv, HasReceipt, Explained
<1>9. QED
  BY <1>3, <1>5, <1>6, <1>7, <1>8 DEF ReaderInv

LEMMA ReaderStep == ReaderInv /\ [ReaderNext]_readerVars => ReaderInv'
<1> SUFFICES ASSUME ReaderInv, [ReaderNext]_readerVars PROVE ReaderInv'
  OBVIOUS
<1>1. ASSUME NEW h \in Readers, NEW n \in Receipts, NotificationArrives(h, n)
      PROVE  ReaderInv'
  BY <1>1, ArrivalStep
<1>2. ASSUME NEW h \in Readers, SelectInPostgres(h) \/ SelectInSupabase(h)
      PROVE  ReaderInv'
  BY <1>2, SelectStep DEF SelectInPostgres, SelectInSupabase
<1>3. ASSUME NEW h \in Readers, MarkPaid(h) \/ Report(h)
      PROVE  ReaderInv'
  BY <1>3, MarkPaidStep, ReportStep
<1>4. ASSUME NEW x \in Orders, SellerCancels(x)
      PROVE  ReaderInv'
  BY <1>4, CancelStep
<1>5. CASE UNCHANGED readerVars
  <2>1. /\ ReaderTypeOK' /\ PaymentInv'
    BY <1>5 DEF readerVars, ReaderInv, ReaderTypeOK, PaymentInv
  <2>2. SelectionInv' /\ ReceiptInv' /\ ReportInv'
    BY <1>5 DEF readerVars, ReaderInv, SelectionInv, ReceiptInv, ReportInv, HasSelected,
                HasReceipt, Explained
  <2>3. QED
    BY <2>1, <2>2 DEF ReaderInv
<1>6. QED
  BY <1>1, <1>2, <1>3, <1>4, <1>5 DEF ReaderNext

LEMMA ReaderInductive == ReaderSpec => []ReaderInv
<1>1. QED
  BY ReaderInit1, ReaderStep, PTL DEF ReaderSpec

(* Every reachable state of the matching is of the declared type.          *)
THEOREM ReaderTypeCorrect == ReaderSpec => []ReaderTypeOK
<1>1. ReaderInv => ReaderTypeOK
  BY DEF ReaderInv
<1>2. QED
  BY <1>1, ReaderInductive, PTL

(* Receipts and orders match one to one, except for an order written       *)
(* between SELECT and UPDATE and a notification that is posted again; and  *)
(* no purchase is reported that no receipt paid, except when the UPDATE    *)
(* failed.                                                                 *)
THEOREM ReceiptsMatchOrders == ReaderSpec => []OneReceiptOneOrder
<1>1. ReaderInv => OneReceiptOneOrder
  <2> SUFFICES ASSUME ReaderInv PROVE OneReceiptOneOrder
    OBVIOUS
  <2>1. \A m, n \in Receipts : m # n => paidFor[m] \cap paidFor[n] \subseteq between
    BY DEF ReaderInv, PaymentInv
  <2>2. ASSUME NEW n \in Receipts, Cardinality(paidFor[n]) > 1
        PROVE  n \in Resendable
    <3> SUFFICES ASSUME n \notin Resendable PROVE FALSE
      OBVIOUS
    <3>1. \A x, y \in paidFor[n] : x = y
      BY DEF ReaderInv, ReceiptInv
    <3>2. CASE paidFor[n] = {}
      BY <2>2, <3>2, FS_EmptySet
    <3>3. CASE \E x : paidFor[n] = {x}
      BY <2>2, <3>3, FS_Singleton
    <3>4. QED
      BY <3>1, <3>2, <3>3
  <2>3. \A x \in reported : x \in unwritten \/ \E n \in Receipts : x \in paidFor[n]
    BY DEF ReaderInv, ReportInv, Explained
  <2>4. QED
    BY <2>1, <2>2, <2>3 DEF OneReceiptOneOrder
<1>2. QED
  BY <1>1, ReaderInductive, PTL
-----------------------------------------------------------------------------
(***************************************************************************)
(* The invitations to a class: InviteLinks                                 *)
(***************************************************************************)

(* Nothing has gone wrong that could give access twice.                    *)
Quiet == slips \cap {"beside", "unstored", "unread"} = {}

Working(c) == call[c] \in Issuing \cup Telling

(* One call at a time works for the order.                                 *)
OneCallInv == \A c, d \in Fulfilments : Working(c) /\ Working(d) => c = d

(* What the call at work has done and has still to do.                     *)
ProgressInv ==
    \A c \in Fulfilments :
        /\ call[c] = "ask" => invites = 0
        /\ call[c] \in {"made"} \cup Storing => invites = 1
        /\ call[c] \in Issuing \cup {"send"} => told = 0
        /\ call[c] \in Issuing \cup {"send", "report"} => purchases = 0
        /\ call[c] \in Telling => row.link

(* A link that was made is in the order, or on its way there.              *)
LinkInv ==
    /\ invites = 0 => ~row.link /\ linked = {} /\ told = 0 /\ purchases = 0
    /\ invites > 0 /\ ~row.link => \E c \in Fulfilments : call[c] \in {"made"} \cup Storing
    /\ row.link => row.mark = "delivered"
    /\ ~row.link => \A h \in linked : \E c \in Fulfilments : host[c] = h /\ call[c] \in Storing

CountInv == invites <= 1 /\ told <= 1 /\ purchases <= 1

OnceInv == Quiet => OneCallInv /\ ProgressInv /\ LinkInv /\ CountInv

(* A stored link is sent, about to be sent, or known not to have been.     *)
ToldInv ==
    row.mark = "delivered" =>
        told > 0 \/ "unsent" \in slips \/ \E c \in Fulfilments : call[c] \in {"again", "send"}

InviteInv == InviteTypeOK /\ OnceInv /\ ToldInv

-----------------------------------------------------------------------------
LEMMA InviteInit1 == InviteInit => InviteInv
<1> SUFFICES ASSUME InviteInit PROVE InviteInv
  OBVIOUS
<1>1. InviteTypeOK
  BY DEF InviteInit, InviteTypeOK, Rows, CallStages
<1>2. OnceInv
  BY DEF InviteInit, OnceInv, OneCallInv, ProgressInv, LinkInv, CountInv, Working,
         Issuing, Storing, Telling
<1>3. ToldInv
  BY DEF InviteInit, ToldInv
<1>4. QED
  BY <1>1, <1>2, <1>3 DEF InviteInv

(* What a step that moves one call leaves alone.                           *)
LEMMA ReachMoves ==
  ASSUME InviteTypeOK, NEW c \in Fulfilments, NEW stage \in CallStages, Reach(c, stage)
  PROVE  /\ call' \in [Fulfilments -> CallStages]
         /\ call'[c] = stage
         /\ \A d \in Fulfilments \ {c} : call'[d] = call[d]
BY DEF InviteTypeOK, Reach

(* Nobody works beside a call that is at work while all is quiet.          *)
LEMMA OthersRest ==
  ASSUME InviteInv, Quiet, NEW c \in Fulfilments, Working(c)
  PROVE  \A d \in Fulfilments \ {c} : call[d] \in {"idle", "done"}
BY DEF InviteInv, OnceInv, OneCallInv, Working, InviteTypeOK, CallStages

(* While all is quiet, a call that finds something to do finds no link,    *)
(* and no other call at work.                                              *)
LEMMA NothingIssuedYet ==
  ASSUME InviteInv, Quiet, NEW c \in Fulfilments, call[c] = "idle", Runs(c),
         ~Refuses(c, row), \A d \in Fulfilments : call[d] \notin Issuing
  PROVE  /\ ~Known(host[c], row) /\ ~row.link /\ invites = 0
         /\ \A d \in Fulfilments : ~Working(d)
<1>1. ProgressInv /\ LinkInv
  BY DEF InviteInv, OnceInv
<1>2. ~row.link
  BY <1>1 DEF LinkInv, Refuses, Known
<1>3. host[c] \notin linked
  <2> SUFFICES ASSUME host[c] \in linked PROVE FALSE
    OBVIOUS
  <2>1. PICK d \in Fulfilments : call[d] \in Storing
    BY <1>1, <1>2 DEF LinkInv
  <2>2. QED
    BY <2>1 DEF Issuing
<1>4. invites = 0
  BY <1>1, <1>2 DEF LinkInv, InviteInv, InviteTypeOK, Issuing
<1>5. \A d \in Fulfilments : call[d] \notin Telling
  BY <1>1, <1>2 DEF ProgressInv
<1>6. QED
  BY <1>2, <1>3, <1>4, <1>5 DEF Known, Working

LEMMA BeginStep ==
  ASSUME InviteInv, NEW c \in Fulfilments, Begin(c)
  PROVE  InviteInv'
<1>1. PICK order \in {row, NotRead} :
        \/ Refuses(c, order) /\ Reach(c, "done") /\ UNCHANGED slips
        \/ /\ ~Refuses(c, order)
           /\ Reach(c, IF Known(host[c], order) THEN "send" ELSE "ask")
           /\ slips' = slips
                \cup {s \in {"unread"} : order # row}
                \cup {s \in {"beside"} : \E d \in Fulfilments : call[d] \in Issuing}
  BY DEF Begin
<1>2. /\ call[c] = "idle" /\ Runs(c)
      /\ UNCHANGED <<row, linked, closed, host, invites, told, purchases>>
  BY DEF Begin
<1>3. PICK stage \in {"done", "send", "ask"} : Reach(c, stage)
  BY <1>1
<1>4. /\ call' \in [Fulfilments -> CallStages] /\ call'[c] = stage
      /\ \A d \in Fulfilments \ {c} : call'[d] = call[d]
  BY <1>3, ReachMoves DEF InviteInv, CallStages, Issuing, Telling
<1>5. InviteTypeOK'
  BY <1>1, <1>2, <1>4 DEF InviteInv, InviteTypeOK, Slips
<1>6. OnceInv'
  <2> SUFFICES ASSUME Quiet' PROVE (OneCallInv /\ ProgressInv /\ LinkInv /\ CountInv)'
    BY DEF OnceInv
  <2>1. Quiet
    BY <1>1 DEF Quiet
  <2>2. OneCallInv /\ ProgressInv /\ LinkInv /\ CountInv
    BY <2>1 DEF InviteInv, OnceInv
  <2>3. CASE call'[c] = "done"
    <3>1. \A d \in Fulfilments : Working(d)' => Working(d) /\ call'[d] = call[d]
      BY <1>4, <2>3 DEF Working, Issuing, Storing, Telling
    <3>2. \A d \in Fulfilments : call[d] \in Issuing \cup Telling => call'[d] = call[d]
      BY <1>2, <1>4 DEF Issuing, Storing, Telling
    <3>3. OneCallInv'
      BY <2>2, <3>1 DEF OneCallInv
    <3>4. ProgressInv'
      BY <1>2, <1>4, <2>2, <2>3 DEF ProgressInv, Issuing, Storing, Telling
    <3>5. LinkInv'
      BY <1>2, <2>2, <3>2 DEF LinkInv, Issuing, Storing
    <3>6. QED
      BY <1>2, <2>2, <3>3, <3>4, <3>5 DEF CountInv
  <2>4. CASE call'[c] # "done"
    <3>1. call'[c] = IF Known(host[c], order) THEN "send" ELSE "ask"
      BY <1>1, <1>4, <2>4, ReachMoves DEF InviteInv, CallStages, Issuing, Telling
    <3>2. /\ ~Refuses(c, order) /\ order = row
          /\ \A d \in Fulfilments : call[d] \notin Issuing
      <4>1. CASE Refuses(c, order) /\ Reach(c, "done") /\ UNCHANGED slips
        BY <4>1, <2>4, ReachMoves DEF InviteInv, CallStages
      <4>2. QED
        BY <1>1, <4>1 DEF Quiet
    <3>3. /\ ~Known(host[c], row) /\ ~row.link /\ invites = 0
          /\ \A d \in Fulfilments : ~Working(d)
      BY <1>2, <2>1, <3>2, NothingIssuedYet
    <3>4. call'[c] = "ask" /\ \A d \in Fulfilments \ {c} : ~Working(d)'
      BY <1>4, <3>1, <3>2, <3>3 DEF Working
    <3>5. OneCallInv'
      BY <3>4 DEF OneCallInv
    <3>6. ProgressInv'
      <4>1. told = 0 /\ purchases = 0
        BY <2>2, <3>3 DEF LinkInv
      <4>2. QED
        BY <1>2, <3>3, <3>4, <4>1 DEF ProgressInv, Working, Issuing, Storing, Telling
    <3>7. LinkInv'
      BY <1>2, <2>2, <3>3 DEF LinkInv
    <3>8. QED
      BY <1>2, <2>2, <3>5, <3>6, <3>7 DEF CountInv
  <2>5. QED
    BY <2>3, <2>4
<1>7. ToldInv'
  <2>1. \A d \in Fulfilments : call[d] \in {"again", "send"} => call'[d] = call[d]
    BY <1>2, <1>4
  <2>2. "unsent" \in slips => "unsent" \in slips'
    BY <1>1
  <2>3. QED
    BY <1>2, <2>1, <2>2 DEF InviteInv, ToldInv
<1>8. QED
  BY <1>5, <1>6, <1>7 DEF InviteInv

(* A step of the call at work: the others rest before and after it.        *)
LEMMA CreateStep ==
  ASSUME InviteInv, NEW c \in Fulfilments, Create(c)
  PROVE  InviteInv'
<1>1. /\ call[c] = "ask" /\ invites' = invites + 1
      /\ UNCHANGED <<row, linked, closed, host, told, purchases, slips>>
  BY DEF Create
<1>2. /\ call' \in [Fulfilments -> CallStages] /\ call'[c] = "made"
      /\ \A d \in Fulfilments \ {c} : call'[d] = call[d]
  BY ReachMoves DEF Create, InviteInv, CallStages, Issuing
<1>3. InviteTypeOK'
  BY <1>1, <1>2 DEF InviteInv, InviteTypeOK
<1>4. OnceInv'
  <2> SUFFICES ASSUME Quiet' PROVE (OneCallInv /\ ProgressInv /\ LinkInv /\ CountInv)'
    BY DEF OnceInv
  <2>1. Quiet /\ Working(c)
    BY <1>1 DEF Quiet, Working, Issuing
  <2>2. /\ OneCallInv /\ ProgressInv /\ LinkInv /\ CountInv
        /\ \A d \in Fulfilments \ {c} : call'[d] \in {"idle", "done"}
    BY <1>2, <2>1, OthersRest DEF InviteInv, OnceInv
  <2>3. invites = 0 /\ told = 0 /\ purchases = 0
    BY <1>1, <2>2 DEF ProgressInv, Issuing
  <2>4. OneCallInv'
    BY <2>2 DEF OneCallInv, Working, Issuing, Storing, Telling
  <2>5. ProgressInv'
    BY <1>1, <1>2, <2>2, <2>3 DEF ProgressInv, Issuing, Storing, Telling
  <2>6. LinkInv'
    BY <1>1, <1>2, <2>2, <2>3 DEF LinkInv
  <2>7. QED
    BY <1>1, <2>3, <2>4, <2>5, <2>6 DEF CountInv
<1>5. ToldInv'
  BY <1>1, <1>2 DEF InviteInv, ToldInv
<1>6. QED
  BY <1>3, <1>4, <1>5 DEF InviteInv

LEMMA ReceiveStep ==
  ASSUME InviteInv, NEW c \in Fulfilments, Receive(c)
  PROVE  InviteInv'
<1>1. /\ call[c] = "made" /\ linked' = linked \cup {host[c]}
      /\ UNCHANGED <<row, closed, host, invites, told, purchases, slips>>
  BY DEF Receive
<1>2. /\ call' \in [Fulfilments -> CallStages] /\ call'[c] = "store"
      /\ \A d \in Fulfilments \ {c} : call'[d] = call[d]
  BY ReachMoves DEF Receive, InviteInv, CallStages, Issuing, Storing
<1>3. InviteTypeOK'
  BY <1>1, <1>2 DEF InviteInv, InviteTypeOK
<1>4. OnceInv'
  <2> SUFFICES ASSUME Quiet' PROVE (OneCallInv /\ ProgressInv /\ LinkInv /\ CountInv)'
    BY DEF OnceInv
  <2>1. Quiet /\ Working(c)
    BY <1>1 DEF Quiet, Working, Issuing
  <2>2. /\ OneCallInv /\ ProgressInv /\ LinkInv /\ CountInv
        /\ \A d \in Fulfilments \ {c} : call[d] \in {"idle", "done"} /\ call'[d] = call[d]
    BY <1>2, <2>1, OthersRest DEF InviteInv, OnceInv
  <2>3. invites = 1 /\ told = 0 /\ purchases = 0
    BY <1>1, <2>2 DEF ProgressInv, Issuing, Storing
  <2>4. OneCallInv'
    BY <2>2 DEF OneCallInv, Working, Issuing, Storing, Telling
  <2>5. ProgressInv'
    BY <1>1, <1>2, <2>2, <2>3 DEF ProgressInv, Issuing, Storing, Telling
  <2>6. LinkInv'
    <3>1. \A d \in Fulfilments : call[d] \notin Storing
      BY <1>1, <2>2 DEF Storing
    <3>2. call'[c] \in Storing
      BY <1>2 DEF Storing
    <3>3. ~row.link => linked' = {host[c]}
      BY <1>1, <2>2, <3>1 DEF LinkInv
    <3>4. QED
      BY <1>1, <2>2, <2>3, <3>2, <3>3 DEF LinkInv
  <2>7. QED
    BY <1>1, <2>2, <2>4, <2>5, <2>6 DEF CountInv
<1>5. ToldInv'
  BY <1>1, <1>2 DEF InviteInv, ToldInv
<1>6. QED
  BY <1>3, <1>4, <1>5 DEF InviteInv

LEMMA InviteFailsStep ==
  ASSUME InviteInv, NEW c \in Fulfilments, InviteFails(c)
  PROVE  InviteInv'
<1>1. /\ call[c] \in {"ask", "made"} /\ Slip("unstored", call[c] = "made")
      /\ \/ row' = [row EXCEPT !.status = "PAID", !.payment = "PAID", !.mark = "pending"]
         \/ UNCHANGED row
      /\ UNCHANGED <<linked, closed, host, invites, told, purchases>>
  BY DEF InviteFails
<1>2. /\ call' \in [Fulfilments -> CallStages] /\ call'[c] = "done"
      /\ \A d \in Fulfilments \ {c} : call'[d] = call[d]
  BY ReachMoves DEF InviteFails, InviteInv, CallStages
<1>3. /\ row' \in Rows /\ row'.link = row.link
      /\ row'.mark = "delivered" => row' = row
  BY <1>1 DEF InviteInv, InviteTypeOK, Rows
<1>4. InviteTypeOK'
  BY <1>1, <1>2, <1>3 DEF InviteInv, InviteTypeOK, Slip, Slips
<1>5. OnceInv'
  <2> SUFFICES ASSUME Quiet' PROVE (OneCallInv /\ ProgressInv /\ LinkInv /\ CountInv)'
    BY DEF OnceInv
  <2>1. Quiet /\ Working(c) /\ call[c] = "ask"
    BY <1>1 DEF Quiet, Slip, Working, Issuing
  <2>2. /\ OneCallInv /\ ProgressInv /\ LinkInv /\ CountInv
        /\ \A d \in Fulfilments : call'[d] \in {"idle", "done"}
    BY <1>2, <2>1, OthersRest DEF InviteInv, OnceInv
  <2>3. invites = 0
    BY <2>1, <2>2 DEF ProgressInv
  <2>4. OneCallInv' /\ ProgressInv'
    BY <2>2 DEF OneCallInv, ProgressInv, Working, Issuing, Storing, Telling
  <2>5. LinkInv'
    BY <1>1, <1>3, <2>2, <2>3 DEF LinkInv
  <2>6. QED
    BY <1>1, <2>2, <2>4, <2>5 DEF CountInv
<1>6. ToldInv'
  <2>1. "unsent" \in slips => "unsent" \in slips'
    BY <1>1 DEF Slip
  <2>2. QED
    BY <1>1, <1>2, <1>3, <2>1 DEF InviteInv, ToldInv
<1>7. QED
  BY <1>4, <1>5, <1>6 DEF InviteInv

LEMMA StoreStep ==
  ASSUME InviteInv, NEW c \in Fulfilments, Store(c)
  PROVE  InviteInv'
<1>1. /\ call[c] \in Storing /\ row' \in {Stored(row), row}
      /\ Slip("unstored", call[c] = "again" /\ ~row'.link)
      /\ UNCHANGED <<linked, closed, host, invites, told, purchases>>
  BY DEF Store
<1>2. /\ call' \in [Fulfilments -> CallStages]
      /\ call'[c] = IF call[c] = "store" THEN "again" ELSE "send"
      /\ \A d \in Fulfilments \ {c} : call'[d] = call[d]
  BY ReachMoves DEF Store, InviteInv, CallStages, Issuing, Storing, Telling
<1>3. /\ row' \in Rows
      /\ row' = row \/ (row'.link /\ row'.mark = "delivered")
  BY <1>1 DEF InviteInv, InviteTypeOK, Rows, Stored
<1>4. InviteTypeOK'
  BY <1>1, <1>2, <1>3 DEF InviteInv, InviteTypeOK, Slip, Slips
<1>5. OnceInv'
  <2> SUFFICES ASSUME Quiet' PROVE (OneCallInv /\ ProgressInv /\ LinkInv /\ CountInv)'
    BY DEF OnceInv
  <2>1. Quiet /\ Working(c) /\ (call[c] = "again" => row'.link)
    BY <1>1 DEF Quiet, Slip, Working, Issuing
  <2>2. /\ OneCallInv /\ ProgressInv /\ LinkInv /\ CountInv
        /\ \A d \in Fulfilments \ {c} : call[d] \in {"idle", "done"} /\ call'[d] = call[d]
    BY <1>2, <2>1, OthersRest DEF InviteInv, OnceInv
  <2>3. invites = 1 /\ told = 0 /\ purchases = 0
    BY <1>1, <2>2 DEF ProgressInv, Issuing
  <2>4. OneCallInv'
    BY <2>2 DEF OneCallInv, Working, Issuing, Storing, Telling
  <2>5. ProgressInv'
    BY <1>1, <1>2, <2>1, <2>2, <2>3 DEF ProgressInv, Issuing, Storing, Telling
  <2>6. LinkInv'
    <3>1. CASE row'.link
      BY <1>1, <1>3, <2>2, <2>3, <3>1 DEF LinkInv
    <3>2. CASE ~row'.link
      <4>1. row' = row /\ call[c] = "store" /\ call'[c] = "again"
        BY <1>1, <1>2, <1>3, <2>1, <3>2 DEF Storing
      <4>2. \A h \in linked : host[c] = h
        BY <2>2, <3>2, <4>1 DEF LinkInv, Storing
      <4>3. QED
        BY <1>1, <2>3, <3>2, <4>1, <4>2 DEF LinkInv, Storing
    <3>3. QED
      BY <3>1, <3>2
  <2>7. QED
    BY <1>1, <2>2, <2>4, <2>5, <2>6 DEF CountInv
<1>6. ToldInv'
  BY <1>2 DEF ToldInv
<1>7. QED
  BY <1>4, <1>5, <1>6 DEF InviteInv

LEMMA SendStep ==
  ASSUME InviteInv, NEW c \in Fulfilments, Send(c)
  PROVE  InviteInv'
<1>1. /\ call[c] = "send"
      /\ (told' = told + 1 /\ slips' = slips) \/ (told' = told /\ slips' = slips \cup {"unsent"})
      /\ UNCHANGED <<row, linked, closed, host, invites, purchases>>
  BY DEF Send, Slip
<1>2. /\ call' \in [Fulfilments -> CallStages] /\ call'[c] = "report"
      /\ \A d \in Fulfilments \ {c} : call'[d] = call[d]
  BY ReachMoves DEF Send, InviteInv, CallStages, Telling
<1>3. InviteTypeOK'
  <2>1. told' \in Nat
    BY <1>1 DEF InviteInv, InviteTypeOK
  <2>2. slips' \subseteq Slips
    BY <1>1 DEF InviteInv, InviteTypeOK, Slips
  <2>3. QED
    BY <1>1, <1>2, <2>1, <2>2 DEF InviteInv, InviteTypeOK
<1>4. OnceInv'
  <2> SUFFICES ASSUME Quiet' PROVE (OneCallInv /\ ProgressInv /\ LinkInv /\ CountInv)'
    BY DEF OnceInv
  <2>1. Quiet /\ Working(c)
    BY <1>1 DEF Quiet, Working, Telling
  <2>2. /\ OneCallInv /\ ProgressInv /\ LinkInv /\ CountInv
        /\ \A d \in Fulfilments \ {c} : call[d] \in {"idle", "done"} /\ call'[d] = call[d]
    BY <1>2, <2>1, OthersRest DEF InviteInv, OnceInv
  <2>3. row.link /\ invites # 0 /\ told = 0 /\ purchases = 0
    BY <1>1, <2>2 DEF ProgressInv, LinkInv, Telling
  <2>4. OneCallInv'
    BY <2>2 DEF OneCallInv, Working, Issuing, Storing, Telling
  <2>5. ProgressInv'
    BY <1>1, <1>2, <2>2, <2>3 DEF ProgressInv, Issuing, Storing, Telling
  <2>6. LinkInv'
    BY <1>1, <2>2, <2>3 DEF LinkInv
  <2>7. QED
    BY <1>1, <2>2, <2>3, <2>4, <2>5, <2>6 DEF CountInv
<1>5. ToldInv'
  <2>1. told' > 0 \/ "unsent" \in slips'
    BY <1>1 DEF InviteInv, InviteTypeOK
  <2>2. QED
    BY <2>1 DEF ToldInv
<1>6. QED
  BY <1>3, <1>4, <1>5 DEF InviteInv

LEMMA ReportPurchaseStep ==
  ASSUME InviteInv, NEW c \in Fulfilments, ReportPurchase(c)
  PROVE  InviteInv'
<1>1. /\ call[c] = "report" /\ (purchases' = purchases + 1 \/ purchases' = purchases)
      /\ UNCHANGED <<row, linked, closed, host, invites, told, slips>>
  BY DEF ReportPurchase
<1>2. /\ call' \in [Fulfilments -> CallStages] /\ call'[c] = "close"
      /\ \A d \in Fulfilments \ {c} : call'[d] = call[d]
  BY ReachMoves DEF ReportPurchase, InviteInv, CallStages, Telling
<1>3. InviteTypeOK'
  BY <1>1, <1>2 DEF InviteInv, InviteTypeOK
<1>4. OnceInv'
  <2> SUFFICES ASSUME Quiet' PROVE (OneCallInv /\ ProgressInv /\ LinkInv /\ CountInv)'
    BY DEF OnceInv
  <2>1. Quiet /\ Working(c)
    BY <1>1 DEF Quiet, Working, Telling
  <2>2. /\ OneCallInv /\ ProgressInv /\ LinkInv /\ CountInv
        /\ \A d \in Fulfilments \ {c} : call[d] \in {"idle", "done"} /\ call'[d] = call[d]
    BY <1>2, <2>1, OthersRest DEF InviteInv, OnceInv
  <2>3. row.link /\ invites # 0 /\ purchases = 0
    BY <1>1, <2>2 DEF ProgressInv, LinkInv, Telling
  <2>4. OneCallInv'
    BY <2>2 DEF OneCallInv, Working, Issuing, Storing, Telling
  <2>5. ProgressInv'
    BY <1>1, <1>2, <2>2, <2>3 DEF ProgressInv, Issuing, Storing, Telling
  <2>6. LinkInv'
    BY <1>1, <2>2, <2>3 DEF LinkInv
  <2>7. QED
    BY <1>1, <2>2, <2>3, <2>4, <2>5, <2>6 DEF CountInv
<1>5. ToldInv'
  BY <1>1, <1>2 DEF InviteInv, ToldInv
<1>6. QED
  BY <1>3, <1>4, <1>5 DEF InviteInv

LEMMA CloseStep ==
  ASSUME InviteInv, NEW c \in Fulfilments, Close(c)
  PROVE  InviteInv'
<1>1. /\ call[c] = "close" /\ closed' = closed \cup {host[c]}
      /\ UNCHANGED <<row, linked, host, invites, told, purchases, slips>>
  BY DEF Close
<1>2. /\ call' \in [Fulfilments -> CallStages] /\ call'[c] = "done"
      /\ \A d \in Fulfilments \ {c} : call'[d] = call[d]
  BY ReachMoves DEF Close, InviteInv, CallStages
<1>3. InviteTypeOK'
  BY <1>1, <1>2 DEF InviteInv, InviteTypeOK
<1>4. OnceInv'
  <2> SUFFICES ASSUME Quiet' PROVE (OneCallInv /\ ProgressInv /\ LinkInv /\ CountInv)'
    BY DEF OnceInv
  <2>1. Quiet /\ Working(c)
    BY <1>1 DEF Quiet, Working, Telling
  <2>2. /\ OneCallInv /\ ProgressInv /\ LinkInv /\ CountInv
        /\ \A d \in Fulfilments : call'[d] \in {"idle", "done"}
    BY <1>2, <2>1, OthersRest DEF InviteInv, OnceInv
  <2>3. row.link /\ invites # 0
    BY <1>1, <2>2 DEF ProgressInv, LinkInv, Telling
  <2>4. OneCallInv' /\ ProgressInv'
    BY <2>2 DEF OneCallInv, ProgressInv, Working, Issuing, Storing, Telling
  <2>5. LinkInv'
    BY <1>1, <2>2, <2>3 DEF LinkInv
  <2>6. QED
    BY <1>1, <2>2, <2>4, <2>5 DEF CountInv
<1>5. ToldInv'
  BY <1>1, <1>2 DEF InviteInv, ToldInv
<1>6. QED
  BY <1>3, <1>4, <1>5 DEF InviteInv

(* Payments and the seller change the statuses only.                       *)
LEMMA StatusStep ==
  ASSUME InviteInv, Settles \/ \E status \in {"PAID", "CANCELLED"} : SellerSets(status)
  PROVE  InviteInv'
<1>1. /\ row' \in Rows /\ row'.link = row.link /\ row'.mark = row.mark
      /\ UNCHANGED <<linked, closed, call, host, invites, told, purchases, slips>>
  <2>1. row \in Rows
    BY DEF InviteInv, InviteTypeOK
  <2>2. CASE Settles
    BY <2>1, <2>2 DEF Settles, Rows
  <2>3. CASE \E status \in {"PAID", "CANCELLED"} : SellerSets(status)
    BY <2>1, <2>3 DEF SellerSets, Rows
  <2>4. QED
    BY <2>2, <2>3
<1>2. InviteTypeOK'
  BY <1>1 DEF InviteInv, InviteTypeOK
<1>3. OnceInv'
  BY <1>1 DEF InviteInv, OnceInv, Quiet, OneCallInv, Working, ProgressInv, LinkInv, CountInv
<1>4. ToldInv'
  BY <1>1 DEF InviteInv, ToldInv
<1>5. QED
  BY <1>2, <1>3, <1>4 DEF InviteInv

LEMMA HostDiesStep ==
  ASSUME InviteInv, NEW h \in Hosts, HostDies(h)
  PROVE  InviteInv'
<1> DEFINE here == {c \in Fulfilments : host[c] = h /\ call[c] \notin {"idle", "done"}}
<1>1. /\ call' = [c \in Fulfilments |-> IF c \in here THEN "done" ELSE call[c]]
      /\ slips' = slips
           \cup {s \in {"unstored"} :
                   ~row.link /\ \E c \in here : call[c] \in {"made"} \cup Storing}
           \cup {s \in {"unsent"} : \E c \in here : call[c] \in Storing \cup {"send"}}
      /\ linked' = linked \ {h} /\ closed' = closed \ {h}
      /\ UNCHANGED <<row, host, invites, told, purchases>>
  BY DEF HostDies
<1>2. \A c \in Fulfilments : call'[c] = IF c \in here THEN "done" ELSE call[c]
  BY <1>1
<1> HIDE DEF here
<1>3. InviteTypeOK'
  <2>1. call' \in [Fulfilments -> CallStages]
    BY <1>1 DEF InviteInv, InviteTypeOK, CallStages
  <2>2. QED
    BY <1>1, <2>1 DEF InviteInv, InviteTypeOK, Slips
<1>4. OnceInv'
  <2> SUFFICES ASSUME Quiet' PROVE (OneCallInv /\ ProgressInv /\ LinkInv /\ CountInv)'
    BY DEF OnceInv
  <2>1. Quiet /\ (row.link \/ \A c \in here : call[c] \notin {"made"} \cup Storing)
    BY <1>1 DEF Quiet
  <2>2. OneCallInv /\ ProgressInv /\ LinkInv /\ CountInv
    BY <2>1 DEF InviteInv, OnceInv
  <2>3. OneCallInv'
    BY <1>2, <2>2 DEF OneCallInv, Working, Issuing, Storing, Telling
  <2>4. ProgressInv'
    BY <1>1, <1>2, <2>2 DEF ProgressInv, Issuing, Storing, Telling
  <2>5. LinkInv'
    <3>1. ~row.link => \A c \in Fulfilments : call[c] \in {"made"} \cup Storing => call'[c] = call[c]
      BY <1>2, <2>1
    <3>2. QED
      BY <1>1, <2>2, <3>1 DEF LinkInv
  <2>6. QED
    BY <1>1, <2>2, <2>3, <2>4, <2>5 DEF CountInv
<1>5. ToldInv'
  <2>1. "unsent" \in slips' \/ \A c \in here : call[c] \notin {"again", "send"}
    BY <1>1 DEF Storing
  <2>2. "unsent" \in slips => "unsent" \in slips'
    BY <1>1
  <2>3. QED
    BY <1>1, <1>2, <2>1, <2>2 DEF InviteInv, ToldInv
<1>6. QED
  BY <1>3, <1>4, <1>5 DEF InviteInv

LEMMA InviteStep1 == InviteInv /\ [InviteNext]_inviteVars => InviteInv'
<1> SUFFICES ASSUME InviteInv, [InviteNext]_inviteVars PROVE InviteInv'
  OBVIOUS
<1>1. CASE \E c \in Fulfilments : InviteStep(c)
  BY <1>1, BeginStep, CreateStep, ReceiveStep, InviteFailsStep, StoreStep, SendStep,
     ReportPurchaseStep, CloseStep DEF InviteStep
<1>2. CASE Settles \/ \E status \in {"PAID", "CANCELLED"} : SellerSets(status)
  BY <1>2, StatusStep
<1>3. CASE \E h \in Hosts : HostDies(h)
  BY <1>3, HostDiesStep
<1>4. CASE UNCHANGED inviteVars
  BY <1>4 DEF inviteVars, InviteInv, InviteTypeOK, OnceInv, Quiet, OneCallInv, Working,
              ProgressInv, LinkInv, CountInv, ToldInv
<1>5. QED
  BY <1>1, <1>2, <1>3, <1>4 DEF InviteNext

LEMMA InviteInductive == InviteSpec => []InviteInv
<1>1. QED
  BY InviteInit1, InviteStep1, PTL DEF InviteSpec

-----------------------------------------------------------------------------
(* Every reachable state of the fulfilments is of the declared type.       *)
THEOREM InviteTypeCorrect == InviteSpec => []InviteTypeOK
<1>1. InviteInv => InviteTypeOK
  BY DEF InviteInv
<1>2. QED
  BY <1>1, InviteInductive, PTL

(* However many processes start however many fulfilments of an order, they *)
(* give access twice only through one of the three openings, and a buyer   *)
(* whose order is DELIVERED without the link only through a failed message *)
(* or a process that died.                                                 *)
THEOREM AccessIsGivenOnce == InviteSpec => []AccessGivenOnce
<1>1. InviteInv => AccessGivenOnce
  <2> SUFFICES ASSUME InviteInv PROVE AccessGivenOnce
    OBVIOUS
  <2>1. NothingTwice
    <3>1. Quiet => CountInv
      BY DEF InviteInv, OnceInv
    <3>2. QED
      BY <3>1 DEF NothingTwice, Quiet, CountInv, InviteInv, InviteTypeOK
  <2>2. NobodyForgotten
    BY DEF InviteInv, ToldInv, NobodyForgotten
  <2>3. QED
    BY <2>1, <2>2 DEF AccessGivenOnce
<1>2. QED
  BY <1>1, InviteInductive, PTL
=============================================================================
