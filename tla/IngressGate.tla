---------------------------- MODULE IngressGate ----------------------------
(***************************************************************************)
(* evaluate_ingress of app/services/ingress_pipeline.py for ONE peer of    *)
(* one tenant in one process: Gate C (challenge_service.py), loop          *)
(* containment and the turn budget (safety_budget_service.py), and the     *)
(* pause an owner puts on the conversation.                                *)
(*                                                                         *)
(* Time passes in ticks.  A list h of timestamps is kept as what the code  *)
(* asks of it: h[n] is the number of messages younger than n ticks, for    *)
(* every n up to the longest window that is counted.                       *)
(***************************************************************************)
EXTENDS Naturals

CONSTANTS
    BurstCount, BurstWindow,        \* Gate C: ANOMALY_BURST_COUNT, ANOMALY_WINDOW_SECS
    ChallengeTTL,                   \* CHALLENGE_TTL_SECS
    LoopLimit, LoopWindow,          \* DEFAULT_BURST_LIMIT, DEFAULT_BURST_WINDOW
    VelocityLimit, VelocityWindow,  \* DEFAULT_VELOCITY_LIMIT, DEFAULT_VELOCITY_WINDOW
    Cooldowns,                      \* COOLDOWN_TIER_1, _2 and _3
    Budget,                         \* DEFAULT_SESSION_BUDGET
    Patience                        \* a peer that waits so long between messages is patient

ASSUME GateAssumption ==
    /\ BurstCount \in Nat \ {0} /\ BurstWindow \in Nat \ {0} /\ ChallengeTTL \in Nat
    /\ LoopLimit \in Nat \ {0} /\ LoopWindow \in Nat \ {0}
    /\ VelocityLimit \in Nat /\ VelocityWindow \in Nat
    /\ BurstWindow <= LoopWindow /\ LoopWindow <= VelocityWindow
    /\ Cooldowns \in [1..3 -> Nat] /\ Budget \in Nat /\ Patience \in Nat

(* What the tuning of the two services keeps between their numbers.  Every *)
(* cooldown (30 seconds and more) outlasts the burst window (10 seconds):  *)
(* a peer leaves a quarantine with no turn left in the window.             *)
ASSUME CooldownAssumption == \A level \in 1..3 : LoopWindow <= Cooldowns[level]

(* n windows of Gate C cover the burst window, and what it lets through in *)
(* them stays below the burst limit: 2 * 5 seconds for 10, 2 * (3 - 1) < 5.*)
ASSUME FrictionAssumption ==
    \E n \in 1..LoopWindow :
        LoopWindow <= n * BurstWindow /\ n * (BurstCount - 1) < LoopLimit

(* A patient peer outwaits every window, challenge and cooldown, and none  *)
(* of the limits is met by a single message.                               *)
ASSUME PatienceAssumption ==
    /\ VelocityWindow <= Patience /\ ChallengeTTL < Patience
    /\ \A level \in 1..3 : Cooldowns[level] <= Patience
    /\ BurstCount > 1 /\ LoopLimit > 1 /\ VelocityLimit > 0

VARIABLES
    gate,          \* _PeerState.state of Gate C
    issued,        \* age of the challenge, counted up to ChallengeTTL + 1
    bursts,        \* burst_timestamps of Gate C, each number up to BurstCount
    peer,          \* PeerSafetyRecord.state
    cooldown,      \* what is left until cooldown_until
    recent,        \* timestamps of loop containment
    violations,    \* violation_count; 3 stands for three and more
    used,          \* used_turns
    paused,        \* the conversation is paused
    quiet,         \* history: time since the last message, up to Patience
    turns,         \* history: turns given since the last resume
    challenged,    \* history: a challenge was issued at least once
    tripped,       \* history: what put the peer into quarantine last
    misses         \* history: messages in a row that a patient peer lost

gateVars    == <<gate, issued, bursts>>
loopVars    == <<peer, cooldown, recent, violations>>
gateNotes   == <<quiet, turns, challenged, tripped, misses>>
ingressVars == <<gateVars, loopVars, used, paused, gateNotes>>

BurstSpans == 0..BurstWindow
LoopSpans  == 0..VelocityWindow
TurnSpans  == 0..LoopWindow

IngressTypeOK ==
    /\ gate \in {"NORMAL", "CHALLENGE_REQUIRED", "ESCALATE_TO_QUARANTINE"}
    /\ issued \in 0..(ChallengeTTL + 1)
    /\ bursts \in [BurstSpans -> 0..BurstCount]
    /\ peer \in {"ACTIVE", "PEER_QUARANTINED", "HALF_OPEN"}
    /\ cooldown \in Nat
    /\ recent \in [LoopSpans -> Nat]
    /\ violations \in 0..3
    /\ used \in 0..Budget
    /\ paused \in BOOLEAN
    /\ quiet \in 0..Patience
    /\ turns \in [TurnSpans -> Nat]
    /\ challenged \in BOOLEAN
    /\ tripped \in {"never", "burst", "velocity"}
    /\ misses \in Nat

Less(n) == IF n = 0 THEN 0 ELSE n - 1

(* Mutant: the counter has no bound.                                       *)
Counted(bound, n) == n + 1

UpTo(bound, n) == IF n >= bound THEN bound ELSE n + 1

Never(spans) == [n \in spans |-> 0]
Now(stamps) == [n \in DOMAIN stamps |-> IF n = 0 THEN 0 ELSE stamps[n] + 1]
Capped(stamps) == [n \in DOMAIN stamps |-> IF n = 0 THEN 0 ELSE UpTo(BurstCount, stamps[n])]
Older(stamps) == [n \in DOMAIN stamps |-> IF n = 0 THEN 0 ELSE stamps[n - 1]]

IngressInit ==
    /\ gate = "NORMAL" /\ issued = 0 /\ bursts = Never(BurstSpans)
    /\ peer = "ACTIVE" /\ cooldown = 0 /\ recent = Never(LoopSpans) /\ violations = 0
    /\ used = 0
    /\ paused = FALSE
    /\ quiet = Patience /\ turns = Never(TurnSpans)
    /\ challenged = FALSE /\ tripped = "never" /\ misses = 0

-----------------------------------------------------------------------------
(* What the peer sees of a message: a turn, or nothing.                    *)

Answered ==
    /\ quiet' = 0
    /\ misses' = 0
    /\ turns' = Now(turns)

Dropped ==
    /\ quiet' = 0
    /\ misses' = IF quiet < Patience \/ paused \/ used = Budget THEN 0 ELSE misses + 1
    /\ UNCHANGED turns

(* Mutant: a peer is created without a budget.                             *)
ReserveFromNothing(state) ==
    /\ IF paused \/ used \in {0, Budget}
         THEN Dropped /\ peer' = state /\ UNCHANGED used
         ELSE Answered /\ peer' = "ACTIVE" /\ used' = used + 1
    /\ UNCHANGED <<cooldown, violations, tripped>>

(* Layers 5 to 7: the pause, the reservation of a turn, and the turn; a    *)
(* probe counts as successful before the model is even called.             *)
Reserve(state) ==
    /\ IF paused \/ used = Budget
         THEN Dropped /\ peer' = state /\ UNCHANGED used
         ELSE Answered /\ peer' = "ACTIVE" /\ used' = used + 1
    /\ UNCHANGED <<cooldown, violations, tripped>>

(* Mutant: the message at hand is not counted.                             *)
BurstBreachedLate(history) == history[LoopWindow] >= LoopLimit

(* The message that makes the limit is already too many.                   *)
BurstBreached(history) == history[LoopWindow] + 1 >= LoopLimit
VelocityBreached(history) == history[VelocityWindow] >= VelocityLimit

(* check_loop_containment lets the message through or quarantines the      *)
(* peer; history is what it still counts, state what the peer then is.     *)
Contain(history, state) ==
    LET level == IF violations = 3 THEN 3 ELSE violations + 1 IN
       /\ recent' = Now(history)
       /\ IF BurstBreached(history) \/ VelocityBreached(history)
            THEN /\ violations' = level
                 /\ cooldown' = Cooldowns[level]
                 /\ peer' = "PEER_QUARANTINED"
                 /\ tripped' = IF VelocityBreached(history) THEN "velocity" ELSE "burst"
                 /\ Dropped
                 /\ UNCHANGED used
            ELSE Reserve(state)

(* Layer 4.  A quarantine that has run out forgets what was counted.       *)
Layer4 ==
    \/ /\ peer = "PEER_QUARANTINED" /\ cooldown > 0
       /\ Dropped
       /\ UNCHANGED <<loopVars, used, tripped>>
    \/ /\ peer = "PEER_QUARANTINED" /\ cooldown = 0
       /\ Contain(Never(LoopSpans), "HALF_OPEN")
    \/ /\ peer # "PEER_QUARANTINED"
       /\ Contain(recent, peer)

(* Layer 3.5 answers itself, or does not answer at all.                    *)
StoppedAtGate == Dropped /\ UNCHANGED <<loopVars, used, paused, tripped>>

-----------------------------------------------------------------------------
(* A message of the peer, by the branches of ChallengeService.evaluate     *)

Pending == gate = "CHALLENGE_REQUIRED"
Expired == issued > ChallengeTTL

(* Mutant: the message at hand is not counted.                             *)
BurstingLate == bursts[BurstWindow] >= BurstCount

Bursting == bursts[BurstWindow] + 1 >= BurstCount

ChallengeExpires ==
    /\ Pending /\ Expired
    /\ gate' = "ESCALATE_TO_QUARANTINE"
    /\ StoppedAtGate
    /\ UNCHANGED <<issued, bursts, challenged>>

HumanReplies ==
    /\ Pending /\ ~Expired
    /\ gate' = "NORMAL"
    /\ issued' = 0
    /\ bursts' = Never(BurstSpans)
    /\ Layer4
    /\ UNCHANGED <<paused, challenged>>

BurstWhilePending ==
    /\ Pending /\ ~Expired /\ Bursting
    /\ gate' = "ESCALATE_TO_QUARANTINE"
    /\ bursts' = Capped(bursts)
    /\ StoppedAtGate
    /\ UNCHANGED <<issued, challenged>>

WrongReply ==
    /\ Pending /\ ~Expired /\ ~Bursting
    /\ bursts' = Capped(bursts)
    /\ StoppedAtGate
    /\ UNCHANGED <<gate, issued, challenged>>

(* Without a pending challenge; an escalated peer is treated like any.     *)
BurstChallenged ==
    /\ ~Pending /\ Bursting
    /\ gate' = "CHALLENGE_REQUIRED"
    /\ issued' = 0
    /\ bursts' = Capped(bursts)
    /\ challenged' = TRUE
    /\ StoppedAtGate

PassesGate ==
    /\ ~Pending /\ ~Bursting
    /\ bursts' = Capped(bursts)
    /\ Layer4
    /\ UNCHANGED <<gate, issued, paused, challenged>>

(* !pause and !resume of the owner.  A resume also lifts a quarantine and  *)
(* forgets what was counted, but not the violations nor the used turns.    *)
OwnerPauses ==
    /\ paused' = TRUE
    /\ UNCHANGED <<gateVars, loopVars, used, gateNotes>>

OwnerResumes ==
    /\ paused' = FALSE
    /\ peer' = "ACTIVE" /\ cooldown' = 0 /\ recent' = Never(LoopSpans)
    /\ turns' = Never(TurnSpans)
    /\ UNCHANGED <<gateVars, violations, used, quiet, challenged, tripped, misses>>

Tick ==
    /\ issued' = UpTo(ChallengeTTL + 1, issued)
    /\ bursts' = Older(bursts) /\ recent' = Older(recent) /\ turns' = Older(turns)
    /\ cooldown' = Less(cooldown)
    /\ quiet' = UpTo(Patience, quiet)
    /\ UNCHANGED <<gate, peer, violations, used, paused, challenged, tripped, misses>>

IngressNext ==
    \/ ChallengeExpires \/ HumanReplies \/ BurstWhilePending \/ WrongReply
    \/ BurstChallenged \/ PassesGate
    \/ OwnerPauses \/ OwnerResumes
    \/ Tick

IngressSpec == IngressInit /\ [][IngressNext]_ingressVars

-----------------------------------------------------------------------------
(* What the layers must get right together                                 *)

(* However the peer spaces its messages, whatever challenges it answers    *)
(* and however often it comes out of a quarantine: since the last resume   *)
(* it never got more turns in a burst window than loop containment allows. *)
TurnsBounded == turns[LoopWindow] < LoopLimit

(* Friction comes first: a peer is quarantined for a burst only after Gate *)
(* C has challenged it.  Messages that Gate C lets through unchallenged    *)
(* are too far apart for the burst limit of layer 4.                       *)
FrictionBeforeBurstQuarantine == tripped = "burst" => challenged

(* Nobody is locked out: of a peer that waits Patience between messages,   *)
(* is not paused and has budget left, at most one message in a row is      *)
(* dropped, in whatever state of challenge, escalation or quarantine its   *)
(* earlier messages left it.                                               *)
PatientPeerMissesOneMessage == misses <= 1
=============================================================================
