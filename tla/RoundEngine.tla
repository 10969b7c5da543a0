---------------------------- MODULE RoundEngine ----------------------------
(***************************************************************************)
(* One round (hand) of Sichuan blood-battle mahjong as the room engine     *)
(* plays it: internal/service/room/engine, with the rule package           *)
(* mahjong/sichuan/xuezhandaodi plugged in.                                *)
(*                                                                         *)
(* The state is RoundState (engine.go:60-110), one variable per field that *)
(* guards or is changed by an operation; tiles are reduced to counts.      *)
(* Which tile a hand holds decides only WHO may claim or win, so every     *)
(* such answer of the rule package is a nondeterministic choice among the  *)
(* answers the counts allow.  Each operation of the engine runs to its end *)
(* inside the room actor before the next one starts: one action each.      *)
(***************************************************************************)
EXTENDS Integers, FiniteSets

CONSTANTS
    WallSize,       \* tiles left on the wall once four hands are dealt
    WithExchange,   \* rule variant: the opening starts with "exchange three"
    AllowLeave,     \* runtime.room.allow_leave_during_play
    MaxMelds,       \* bound: melds a seat makes (a hand runs out at four)
    MaxRobbers,     \* bound: seats that may rob one and the same added gang
    Sleepers,       \* bound: seats that may let a deadline pass
    Leavers         \* bound: seats that may leave

ASSUME WallAssumption == WallSize \in Nat \ {0}
ASSUME FlagAssumption == WithExchange \in BOOLEAN /\ AllowLeave \in BOOLEAN
ASSUME BoundAssumption == /\ MaxMelds \in Nat /\ MaxRobbers \in Nat
                          /\ Sleepers \subseteq 0..3 /\ Leavers \subseteq 0..3

Seats == 0..3
NoSeat == -1
Dealer == 0
HandSize == 13

(* WaitingReason (phase.go:20-30).  The five mutually exclusive reasons     *)
(* stand for phaseReason and the four waiting flags enterPhase keeps equal *)
(* to it.                                                                  *)
Phases == {"None", "Opening", "Claim", "Tsumo", "Discard"}

(* The deadline as the scheduler sees it: none is set, the clock is still  *)
(* before it, or the clock has reached it.                                 *)
Deadlines == {"none", "running", "expired"}

ClaimActions == {"hu", "gang", "pong"}
NoCands == [s \in Seats |-> {}]

VARIABLES
    phase, deadline,
    turn, step,
    hand,               \* concealed tiles of each seat
    melds,              \* exposed melds of each seat
    pongs,              \* melds that are pongs whose 4th tile may yet come
    wall,               \* tiles left on the wall
    cands,              \* claimCandidates: the actions offered to each seat
    lastDiscardSeat,
    pendingGang,        \* pendingGangSeat; set iff qiangGangWindow
    robbed,             \* the tile of the pending added gang was robbed
    pendingDraw,        \* pendingDraw # 0: drawn, not yet in the hand
    currentDraw,        \* currentDraw # 0
    hued,               \* seats with a WinEvent
    surrendered,
    closed,
    openingDrawSeat, dealerFirstDiscardOpen,
    lastGangFollowUp, lastDiscardAfterGang,
    exchangeSubmitted, missingSubmitted,
    offers,             \* seats whose three exchange tiles are selected
    direction,          \* exchange direction, 0 while undecided
    dealt               \* history: hand size a seat enters play with

openingVars == <<exchangeSubmitted, missingSubmitted, offers, direction, dealt>>
meldVars == <<melds, pongs>>
seatVars == <<hued, surrendered>>
flagVars == <<openingDrawSeat, dealerFirstDiscardOpen, lastGangFollowUp,
              lastDiscardAfterGang>>
windowVars == <<phase, deadline, cands, lastDiscardSeat, pendingGang, robbed>>
drawVars == <<wall, pendingDraw, currentDraw>>
vars == <<openingVars, meldVars, seatVars, flagVars, windowVars, drawVars,
          turn, step, hand, closed>>

-----------------------------------------------------------------------------
(* Seats in and out of the rotation.                                       *)

(* activeSeats: neither out after a win nor surrendered.                   *)
Active(H, S) == Seats \ (H \cup S)

(* nextActiveSeat: the first active seat after from, all the way round to  *)
(* from itself; from when nobody is active.                                *)
NextActiveSeat(from, A) ==
    IF \E k \in 1..4 : (from + k) % 4 \in A
    THEN (from + CHOOSE k \in 1..4 : /\ (from + k) % 4 \in A
                                     /\ \A j \in 1..(k - 1) : (from + j) % 4 \notin A) % 4
    ELSE from

ShouldFinishAfterFourWins(H, w) == Cardinality(H) > 3 \/ w = 0

(* shouldFinishRound / terminationPolicy.GameOver: three wins or no wall.  *)
ShouldFinishRound(H, w) == Cardinality(H) >= 3 \/ w = 0

(* The shape a hand must have before CheckHu can accept one more tile      *)
(* (hu.IsWinning, IsWinningWithOpenMelds), for a seat checkSeatHu does not *)
(* turn away.                                                              *)
CanHu(s, h, m, A) == s \in A /\ h[s] = HandSize - 3 * m[s]

-----------------------------------------------------------------------------
(* Phases and claim windows.                                               *)

EnterPhaseNoClaimDeadline(r) ==
    /\ phase' = r
    /\ deadline' = IF r \in {"None", "Claim"} THEN "none" ELSE "running"

(* enterPhase: the only writer of the phase and of its deadline.           *)
EnterPhase(r) ==
    /\ phase' = r
    /\ deadline' = IF r = "None" THEN "none" ELSE "running"

(* claimPriority *)
Priority(acts) ==
    CASE "hu" \in acts   -> 3
      [] "hu" \notin acts /\ "gang" \in acts -> 2
      [] "hu" \notin acts /\ "gang" \notin acts /\ "pong" \in acts -> 1
      [] OTHER -> 0

IsTopClaimSeatAnyPriority(s) == phase = "Claim" /\ cands[s] # {}

(* isTopClaimSeat: several seats may share the highest priority.           *)
IsTopClaimSeat(s) ==
    /\ phase = "Claim"
    /\ cands[s] # {}
    /\ \A o \in Seats : Priority(cands[o]) <= Priority(cands[s])

(* bestClaimCandidate: of the top seats the first after the discarder.     *)
IsBestClaimCandidate(s) ==
    /\ IsTopClaimSeat(s)
    /\ \A o \in Seats : IsTopClaimSeat(o) =>
           (s - lastDiscardSeat) % 4 <= (o - lastDiscardSeat) % 4

(* buildClaimCandidates / claimPolicy.Candidates for a tile discarded by   *)
(* src: any seat with a complete shape may win on it; four copies of a     *)
(* tile exist, so at most one other seat holds two or three of them.       *)
DiscardCandidates(src, h, A) ==
    LET others == A \ {src}
        Holding(n) == {s \in others : h[s] >= n /\ melds[s] < MaxMelds}
        Melding == {<<NoSeat, {}>>} \cup (Holding(2) \X {{"pong"}})
                   \cup (Holding(3) \X {{"gang", "pong"}})
    IN  { [s \in Seats |-> (IF s \in H THEN {"hu"} ELSE {})
                           \cup (IF s = g[1] THEN g[2] ELSE {})] :
            H \in SUBSET {s \in others : CanHu(s, h, melds, A)},
            g \in Melding }

(* The same for the tile of an added gang: it can only be won on.          *)
QiangGangCandidates(src, h, A) ==
    { [s \in Seats |-> IF s \in H THEN {"hu"} ELSE {}] :
        H \in {R \in SUBSET {s \in A \ {src} : CanHu(s, h, melds, A)} :
                  Cardinality(R) <= MaxRobbers} }

LeaveOpeningClaimWindow == UNCHANGED dealerFirstDiscardOpen

(* closeOpeningClaimWindow *)
CloseOpeningClaimWindow == dealerFirstDiscardOpen' = FALSE

(* clearClaimWindow, without its enterPhase(ReasonNone).                   *)
DropCandidates == cands' = NoCands /\ pendingGang' = NoSeat

-----------------------------------------------------------------------------
(* finishRound: the settlement is built and the round is closed.           *)
FinishRound(t, h, w) ==
    /\ closed' = TRUE
    /\ pendingDraw' = FALSE /\ currentDraw' = FALSE
    /\ lastDiscardSeat' = NoSeat
    /\ DropCandidates
    /\ EnterPhase("None")
    /\ turn' = t /\ hand' = h
    /\ wall' = w
    /\ robbed' = FALSE

(* drawForCurrentTurn for seat t with hands h and wall w, after the caller *)
(* has fixed melds', hued' and surrendered': finish, or draw; a tile the   *)
(* seat can win on stays pending.  Every caller arrives with no pending    *)
(* draw.                                                                   *)
DrawForCurrentTurn(t, h, w, from) ==
    \/ /\ ShouldFinishRound(hued', w)
       /\ FinishRound(t, h, w)
    \/ /\ ~ShouldFinishRound(hued', w)
       /\ wall' = w - 1
       /\ turn' = t
       /\ currentDraw' = TRUE
       /\ lastDiscardSeat' = from
       /\ DropCandidates
       /\ robbed' = FALSE
       /\ UNCHANGED closed
       /\ \/ /\ CanHu(t, h, melds', Active(hued', surrendered'))
             /\ hand' = h
             /\ pendingDraw' = TRUE
             /\ EnterPhase("Tsumo")
          \/ /\ hand' = [h EXCEPT ![t] = @ + 1]
             /\ pendingDraw' = FALSE
             /\ EnterPhase("Discard")

-----------------------------------------------------------------------------
(* StartRound: thirteen tiles each, dealer and turn are seat 0, then       *)
(* initRoundNotifications enters the first opening step.                   *)
Init ==
    /\ phase = "Opening" /\ deadline = "running"
    /\ turn = Dealer /\ step = 0
    /\ hand = [s \in Seats |-> HandSize]
    /\ melds = [s \in Seats |-> 0]
    /\ pongs = [s \in Seats |-> 0]
    /\ wall = WallSize
    /\ cands = NoCands
    /\ lastDiscardSeat = NoSeat /\ pendingGang = NoSeat /\ robbed = FALSE
    /\ pendingDraw = FALSE /\ currentDraw = FALSE
    /\ hued = {} /\ surrendered = {}
    /\ closed = FALSE
    /\ openingDrawSeat = Dealer /\ dealerFirstDiscardOpen = FALSE
    /\ lastGangFollowUp = FALSE /\ lastDiscardAfterGang = FALSE
    /\ exchangeSubmitted = {} /\ missingSubmitted = {}
    /\ offers = {} /\ direction = 0
    /\ dealt = [s \in Seats |-> HandSize]

-----------------------------------------------------------------------------
(* The opening.                                                            *)

(* openingPolicy.CurrentStep *)
OpeningStep ==
    IF WithExchange /\ exchangeSubmitted # Seats THEN "exchange"
    ELSE IF missingSubmitted # Seats THEN "missing" ELSE "done"

(* openingSubmitted: the seats the current opening step still waits for.   *)
Owing == CASE OpeningStep = "exchange" -> Seats \ exchangeSubmitted
           [] OpeningStep = "missing" -> Seats \ missingSubmitted
           [] OTHER -> {}

ExchangeThreeOtherWay(O, d) ==
    [s \in Seats |-> hand[s] - (IF s \in O THEN 3 ELSE 0)
                             + (IF (s + 4 - d) % 4 \in O THEN 3 ELSE 0)]

(* openingExchangeThreeWithSelections: seat s gives away what it selected  *)
(* and receives what the seat d places on selected; an empty selection     *)
(* gives nothing.                                                          *)
ExchangeThree(O, d) ==
    [s \in Seats |-> hand[s] - (IF s \in O THEN 3 ELSE 0)
                             + (IF (s + d) % 4 \in O THEN 3 ELSE 0)]

(* applyExchange for a seat that offers three tiles, or none when it is    *)
(* being surrendered; the first submission fixes the direction.            *)
ApplyExchange(s, dir, offering) ==
    /\ OpeningStep = "exchange"
    /\ s \notin exchangeSubmitted
    /\ LET O == IF offering THEN offers \cup {s} ELSE offers
           d == IF direction = 0 THEN dir ELSE direction
       IN  /\ exchangeSubmitted' = exchangeSubmitted \cup {s}
           /\ direction' = d
           /\ IF exchangeSubmitted' = Seats
              THEN /\ hand' = ExchangeThree(O, d)
                   /\ dealt' = hand'
                   /\ offers' = {}
              ELSE /\ offers' = O
                   /\ UNCHANGED <<hand, dealt>>
    /\ EnterPhase("Opening")
    /\ UNCHANGED <<missingSubmitted, drawVars, turn, closed, cands,
                   lastDiscardSeat, pendingGang, robbed>>

(* applyMissingSuit; after the last seat completeOpening draws for the     *)
(* dealer.                                                                 *)
ApplyMissingSuit(s) ==
    /\ OpeningStep = "missing"
    /\ s \notin missingSubmitted
    /\ missingSubmitted' = missingSubmitted \cup {s}
    /\ UNCHANGED <<exchangeSubmitted, offers, direction, dealt>>
    /\ IF missingSubmitted' = Seats
       THEN DrawForCurrentTurn(turn, hand, wall, lastDiscardSeat)
       ELSE /\ EnterPhase("Opening")
            /\ UNCHANGED <<hand, drawVars, turn, closed, cands,
                           lastDiscardSeat, pendingGang, robbed>>

(* ApplyOpeningActionByPlayer.  The engine asks neither for the phase nor  *)
(* whether the seat has surrendered.                                       *)
OpeningAction(s) ==
    /\ ~closed
    /\ UNCHANGED <<meldVars, seatVars, flagVars, step>>
    /\ \/ \E dir \in 1..3 : ApplyExchange(s, dir, TRUE)
       \/ ApplyMissingSuit(s)

-----------------------------------------------------------------------------
PendingTileDropped(s) == hand

(* ApplyDiscard.  A seat asked about a self-drawn win may discard straight *)
(* away: the pending tile joins the hand first.                            *)
HandWithPending(s) ==
    IF phase = "Tsumo" THEN [hand EXCEPT ![s] = @ + 1] ELSE hand

Discard(s) ==
    LET left == [HandWithPending(s) EXCEPT ![s] = @ - 1]
        first == s = Dealer /\ openingDrawSeat = s
        A == Active(hued, surrendered)
        next == NextActiveSeat(s, A)
    IN
    /\ ~closed
    /\ s = turn
    /\ phase \in {"Tsumo", "Discard"}
    /\ step' = step + 1
    /\ openingDrawSeat' = IF first THEN NoSeat ELSE openingDrawSeat
    /\ lastDiscardAfterGang' = lastGangFollowUp
    /\ lastGangFollowUp' = FALSE
    /\ UNCHANGED <<openingVars, meldVars, seatVars>>
    /\ \/ /\ ShouldFinishRound(hued, wall)
          /\ dealerFirstDiscardOpen' = (first \/ dealerFirstDiscardOpen)
          /\ FinishRound(turn, left, wall)
       \/ /\ ~ShouldFinishRound(hued, wall)
          /\ \E c \in DiscardCandidates(s, left, A) :
                \/ /\ c # NoCands
                   /\ cands' = c
                   /\ lastDiscardSeat' = s
                   /\ turn' = next
                   /\ hand' = left
                   /\ dealerFirstDiscardOpen' = (first \/ dealerFirstDiscardOpen)
                   /\ pendingDraw' = FALSE /\ currentDraw' = FALSE
                   /\ EnterPhase("Claim")
                   /\ UNCHANGED <<wall, pendingGang, robbed, closed>>
                \/ /\ c = NoCands
                   /\ CloseOpeningClaimWindow
                   /\ DrawForCurrentTurn(next, left, wall, s)

(* ApplyDiscard of a tile the hand does not hold: the error comes after    *)
(* the pending tile has joined the hand and the phase has moved on.        *)
DiscardMissingTile(s) ==
    /\ ~closed
    /\ s = turn
    /\ phase = "Tsumo"
    /\ hand' = HandWithPending(s)
    /\ pendingDraw' = FALSE
    /\ EnterPhase("Discard")
    /\ UNCHANGED <<openingVars, meldVars, seatVars, flagVars, turn, step, closed,
                   wall, currentDraw, cands, lastDiscardSeat, pendingGang, robbed>>

-----------------------------------------------------------------------------
(* ApplyHu on a claimed tile.  A robbed added gang takes the tile out of   *)
(* the gang seat's hand the first time, and silently not again.  The other *)
(* seats that can win on the same tile are asked before anyone draws.      *)
HuClaim(s) ==
    LET left == IF pendingGang # NoSeat /\ ~robbed
                THEN [hand EXCEPT ![pendingGang] = @ - 1] ELSE hand
        rest == [cands EXCEPT ![s] = {}]
        A == Active(hued \cup {s}, surrendered)
    IN
    /\ ~closed
    /\ s \notin hued /\ s \notin surrendered
    /\ IsTopClaimSeat(s) /\ "hu" \in cands[s]
    /\ hued' = hued \cup {s}
    /\ lastGangFollowUp' = FALSE /\ lastDiscardAfterGang' = FALSE
    /\ CloseOpeningClaimWindow
    /\ pongs' = IF pendingGang # NoSeat /\ ~robbed
                THEN [pongs EXCEPT ![pendingGang] = @ - 1] ELSE pongs
    /\ UNCHANGED <<openingVars, melds, surrendered, openingDrawSeat, step>>
    /\ \/ /\ ShouldFinishRound(hued', wall)
          /\ FinishRound(turn, left, wall)
       \/ /\ ~ShouldFinishRound(hued', wall)
          /\ \E o \in Seats : "hu" \in rest[o]
          /\ cands' = rest
          /\ robbed' = (pendingGang # NoSeat)
          /\ hand' = left
          /\ pendingDraw' = FALSE /\ currentDraw' = FALSE
          /\ EnterPhase("Claim")
          /\ UNCHANGED <<turn, wall, closed, lastDiscardSeat, pendingGang>>
       \/ /\ ~ShouldFinishRound(hued', wall)
          /\ \A o \in Seats : "hu" \notin rest[o]
          /\ DrawForCurrentTurn(NextActiveSeat(lastDiscardSeat, A), left, wall, lastDiscardSeat)

(* ApplyHu on the seat's own draw. *)
HuTsumo(s) ==
    LET A == Active(hued \cup {s}, surrendered)
    IN
    /\ ~closed
    /\ s = turn /\ phase = "Tsumo"
    /\ s \notin hued /\ s \notin surrendered
    /\ hued' = hued \cup {s}
    /\ lastGangFollowUp' = FALSE /\ lastDiscardAfterGang' = FALSE
    /\ openingDrawSeat' = NoSeat
    /\ UNCHANGED <<openingVars, meldVars, surrendered, dealerFirstDiscardOpen, step>>
    /\ \/ ShouldFinishRound(hued', wall) /\ FinishRound(turn, hand, wall)
       \/ /\ ~ShouldFinishRound(hued', wall)
          /\ DrawForCurrentTurn(NextActiveSeat(s, A), hand, wall, lastDiscardSeat)

-----------------------------------------------------------------------------
(* Claims on a discard.                                                    *)

(* rewindInterruptedTurn: a draw the turn seat has not completed goes back *)
(* to the wall.                                                            *)
RewoundHand ==
    IF currentDraw /\ ~pendingDraw THEN [hand EXCEPT ![turn] = @ - 1] ELSE hand
RewoundWall == IF currentDraw THEN wall + 1 ELSE wall

(* ApplyPongByPlayer *)
Pong(s) ==
    /\ IsTopClaimSeat(s) /\ "pong" \in cands[s] /\ s \notin hued
    /\ hand' = [RewoundHand EXCEPT ![s] = @ - 2]
    /\ wall' = RewoundWall
    /\ melds' = [melds EXCEPT ![s] = @ + 1]
    /\ pongs' = [pongs EXCEPT ![s] = @ + 1]
    /\ turn' = s
    /\ pendingDraw' = FALSE /\ currentDraw' = FALSE
    /\ lastDiscardSeat' = NoSeat
    /\ CloseOpeningClaimWindow
    /\ DropCandidates
    /\ EnterPhase("Discard")
    /\ UNCHANGED <<openingVars, seatVars, openingDrawSeat, lastGangFollowUp,
                   lastDiscardAfterGang, step, closed, robbed>>

(* finishGangAction: the gang seat draws its supplement tile.  The gang    *)
(* marks the next discard or self-drawn win (appendGangScoreEvents).       *)
FinishGangAction(s, h, w) ==
    /\ lastGangFollowUp' = TRUE
    /\ DrawForCurrentTurn(s, h, w, NoSeat)

(* ApplyGang on a discard; the interrupted draw is rewound first.          *)
ClaimGang(s) ==
    /\ IsTopClaimSeat(s) /\ "gang" \in cands[s] /\ s \notin hued
    /\ melds' = [melds EXCEPT ![s] = @ + 1]
    /\ CloseOpeningClaimWindow
    /\ UNCHANGED <<openingVars, pongs, seatVars, openingDrawSeat,
                   lastDiscardAfterGang, step>>
    /\ FinishGangAction(s, [RewoundHand EXCEPT ![s] = @ - 3], RewoundWall)

(* Self gangs are open to the turn seat while it is to discard.            *)
MaySelfGang(s) == s = turn /\ phase = "Discard" /\ s \notin hued

(* ApplyGang of four concealed tiles. *)
AnGang(s) ==
    /\ MaySelfGang(s) /\ hand[s] >= 4 /\ melds[s] < MaxMelds
    /\ melds' = [melds EXCEPT ![s] = @ + 1]
    /\ UNCHANGED <<openingVars, pongs, seatVars, openingDrawSeat,
                   dealerFirstDiscardOpen, lastDiscardAfterGang, step>>
    /\ FinishGangAction(s, [hand EXCEPT ![s] = @ - 4], wall)

(* completeBuGang followed by finishGangAction. *)
CompleteBuGang(s) ==
    /\ pongs' = [pongs EXCEPT ![s] = @ - 1]
    /\ FinishGangAction(s, [hand EXCEPT ![s] = @ - 1], wall)

(* ApplyGang that adds the fourth tile to a pong.  Seats that can win on   *)
(* it may rob it first: the tile stays in the hand while they are asked.   *)
BuGang(s) ==
    /\ MaySelfGang(s) /\ pongs[s] > 0
    /\ UNCHANGED <<openingVars, melds, seatVars, openingDrawSeat,
                   dealerFirstDiscardOpen, lastDiscardAfterGang, step>>
    /\ \E c \in QiangGangCandidates(s, hand, Active(hued, surrendered)) :
          \/ /\ c # NoCands
             /\ cands' = c
             /\ lastDiscardSeat' = s
             /\ pendingGang' = s
             /\ EnterPhase("Claim")
             /\ UNCHANGED <<pongs, lastGangFollowUp, hand, turn, drawVars,
                            robbed, closed>>
          \/ c = NoCands /\ CompleteBuGang(s)

-----------------------------------------------------------------------------
(* ApplyPass by a top claim seat.  The window relays to the next candidate *)
(* without enterPhase, so its deadline stays what it was.  When nobody is  *)
(* left a pending added gang is completed; that fails, with the window     *)
(* already cleared, if the tile was robbed.  Otherwise the seat that was   *)
(* next when the tile was discarded draws.                                 *)
PassClaimBy(s) ==
    LET rest == [cands EXCEPT ![s] = {}]
    IN
    /\ UNCHANGED <<openingVars, melds, hued, openingDrawSeat,
                   lastDiscardAfterGang, step>>
    /\ \/ /\ rest # NoCands
          /\ cands' = rest
          /\ UNCHANGED <<pongs, dealerFirstDiscardOpen, lastGangFollowUp, hand,
                         turn, drawVars, closed, phase, deadline,
                         lastDiscardSeat, pendingGang, robbed>>
       \/ /\ rest = NoCands /\ pendingGang # NoSeat /\ ~robbed
          /\ UNCHANGED dealerFirstDiscardOpen
          /\ CompleteBuGang(pendingGang)
       \/ /\ rest = NoCands /\ pendingGang # NoSeat /\ robbed
          /\ DropCandidates
          /\ EnterPhase("None")
          /\ UNCHANGED <<pongs, dealerFirstDiscardOpen, lastGangFollowUp, hand,
                         turn, drawVars, closed, lastDiscardSeat, robbed>>
       \/ /\ rest = NoCands /\ pendingGang = NoSeat
          /\ CloseOpeningClaimWindow
          /\ UNCHANGED <<pongs, lastGangFollowUp>>
          /\ DrawForCurrentTurn(turn, hand, wall, lastDiscardSeat)

PassClaim(s) ==
    /\ IsTopClaimSeat(s)
    /\ UNCHANGED surrendered
    /\ PassClaimBy(s)

(* ApplyPass on a self-drawn win: the tile joins the hand.                 *)
PassTsumo(s) ==
    /\ s = turn /\ phase = "Tsumo"
    /\ hand' = HandWithPending(s)
    /\ pendingDraw' = FALSE
    /\ step' = step + 1
    /\ EnterPhase("Discard")
    /\ UNCHANGED <<openingVars, meldVars, seatVars, flagVars, turn, closed,
                   wall, currentDraw, cands, lastDiscardSeat, pendingGang, robbed>>

-----------------------------------------------------------------------------
(* Time.                                                                   *)

(* The clock reaches the deadline. *)
Tick ==
    /\ deadline = "running"
    /\ deadline' = "expired"
    /\ UNCHANGED <<openingVars, meldVars, seatVars, flagVars, drawVars, turn, step,
                   hand, closed, phase, cands, lastDiscardSeat, pendingGang, robbed>>

(* ApplyTimeout in the opening: the first seat that has neither submitted  *)
(* nor surrendered is surrendered and an empty submission made for it.     *)
TimeoutOpening(s) ==
    LET waiting == Owing \ surrendered
    IN
    /\ phase = "Opening"
    /\ s \in waiting /\ \A o \in waiting : s <= o
    /\ surrendered' = surrendered \cup {s}
    /\ UNCHANGED <<meldVars, hued, flagVars, step>>
    /\ \/ ApplyExchange(s, 3, FALSE)
       \/ ApplyMissingSuit(s)

(* ApplyTimeout in a claim window: the best candidate is surrendered and   *)
(* passes.                                                                 *)
TimeoutClaim(s) ==
    /\ IsBestClaimCandidate(s)
    /\ surrendered' = surrendered \cup {s}
    /\ PassClaimBy(s)

(* surrenderTurnAndContinue: the turn seat drops out; a tile it was asked  *)
(* about is lost.  With at most one seat left in play the round is over.   *)
TimeoutTurn(s) ==
    /\ phase \in {"Tsumo", "Discard"}
    /\ s = turn
    /\ surrendered' = surrendered \cup {s}
    /\ CloseOpeningClaimWindow
    /\ UNCHANGED <<openingVars, meldVars, hued, openingDrawSeat, lastGangFollowUp,
                   lastDiscardAfterGang, step>>
    /\ LET A == Active(hued, surrendered')
       IN  IF Cardinality(A) <= 1
           THEN FinishRound(turn, hand, wall)
           ELSE DrawForCurrentTurn(NextActiveSeat(s, A), hand, wall, lastDiscardSeat)

(* The scheduler runs ApplyTimeout once the deadline has passed. *)
Timeout(s) ==
    /\ ~closed
    /\ deadline = "expired"
    /\ s \in Sleepers
    /\ TimeoutOpening(s) \/ TimeoutClaim(s) \/ TimeoutTurn(s)

(* Actor.doLeave during play, by request or by the offline timer: the seat *)
(* is marked surrendered and nothing else happens to the round.            *)
Leave(s) ==
    /\ AllowLeave
    /\ ~closed
    /\ s \in Leavers
    /\ surrendered' = surrendered \cup {s}
    /\ UNCHANGED <<openingVars, meldVars, hued, flagVars, windowVars, drawVars,
                   turn, step, hand, closed>>

-----------------------------------------------------------------------------
PlayerAction(s) ==
    \/ OpeningAction(s)
    \/ Discard(s) \/ DiscardMissingTile(s)
    \/ HuClaim(s) \/ HuTsumo(s)
    \/ Pong(s) \/ ClaimGang(s) \/ AnGang(s) \/ BuGang(s)
    \/ PassClaim(s) \/ PassTsumo(s)

Next ==
    \/ \E s \in Seats : PlayerAction(s) \/ Timeout(s) \/ Leave(s)
    \/ Tick

Spec == Init /\ [][Next]_vars

-----------------------------------------------------------------------------
(* Types. *)
TypeOK ==
    /\ phase \in Phases /\ deadline \in Deadlines
    /\ turn \in Seats /\ step \in Nat
    /\ hand \in [Seats -> Nat]
    /\ melds \in [Seats -> Nat] /\ pongs \in [Seats -> Nat]
    /\ wall \in 0..WallSize
    /\ cands \in [Seats -> SUBSET ClaimActions]
    /\ lastDiscardSeat \in Seats \cup {NoSeat}
    /\ pendingGang \in Seats \cup {NoSeat} /\ robbed \in BOOLEAN
    /\ pendingDraw \in BOOLEAN /\ currentDraw \in BOOLEAN
    /\ hued \in SUBSET Seats /\ surrendered \in SUBSET Seats
    /\ closed \in BOOLEAN
    /\ openingDrawSeat \in {Dealer, NoSeat} /\ dealerFirstDiscardOpen \in BOOLEAN
    /\ lastGangFollowUp \in BOOLEAN /\ lastDiscardAfterGang \in BOOLEAN
    /\ exchangeSubmitted \in SUBSET Seats /\ missingSubmitted \in SUBSET Seats
    /\ offers \in SUBSET Seats /\ direction \in 0..3
    /\ dealt \in [Seats -> {10, 13, 16}]

-----------------------------------------------------------------------------
(* Safety.                                                                 *)

(* Tiles a seat holds when nothing is owed to it or by it. *)
Base(s) == dealt[s] - 3 * melds[s]

(* The seat holds one tile more: it is to discard, or the fourth tile of   *)
(* its added gang is still in its hand while others may rob it.            *)
Holds(s) == \/ phase = "Discard" /\ turn = s
            \/ pendingGang = s /\ ~robbed

(* A seat that dropped out and that no running step concerns any more.     *)
Idle(s) == /\ s \in surrendered /\ cands[s] = {}
           /\ closed \/ s # turn
           /\ ~(phase = "Claim" /\ lastDiscardSeat = s)

(* Every hand keeps the size its melds and the running step call for, in   *)
(* whatever order draws, claims, gangs, robbed gangs, wins and failed      *)
(* discards come; CheckHu and Remove of the engine depend on it.  Only a   *)
(* seat that timed out while holding its draw keeps one tile too many.     *)
HandShape ==
    \A s \in Seats :
        \/ hand[s] = Base(s) + (IF Holds(s) THEN 1 ELSE 0)
        \/ Idle(s) /\ hand[s] = Base(s) + 1

(* A claim window is open exactly while somebody can answer it: it never   *)
(* waits for the discarder, for a seat that has won, or for nobody         *)
(* (bestClaimCandidate never comes back empty in ApplyTimeout), and an     *)
(* added gang is pending only there, with wins the only answers.           *)
ClaimWindowAnswerable ==
    /\ phase = "Claim" <=> cands # NoCands
    /\ phase = "Claim" => lastDiscardSeat \in Seats
    /\ \A s \in Seats : cands[s] # {} => s # lastDiscardSeat /\ s \notin hued
    /\ pendingGang # NoSeat =>
          /\ phase = "Claim"
          /\ pendingGang = lastDiscardSeat /\ pendingGang = turn
          /\ \A s \in Seats : cands[s] \subseteq {"hu"}

(* The round always waits for somebody under a deadline; the one way to    *)
(* lose both is the last refusal after an added gang was robbed            *)
(* (completeBuGang fails in ApplyPass with the window already cleared).    *)
WaitsUnlessGangRobbed ==
    /\ ~closed /\ phase = "None" => robbed
    /\ deadline = "none" <=> phase = "None"

(* A round closes only with three winners, an empty wall, or at most one   *)
(* seat left in play, and the third win closes it at once: no further seat *)
(* is asked for its claim.                                                 *)
ClosedForAReason ==
    /\ closed => \/ Cardinality(hued) >= 3
                 \/ wall = 0
                 \/ Cardinality(Active(hued, surrendered)) <= 1
    /\ Cardinality(hued) >= 3 => closed

(* The exchange of three skews a hand only where a seat was surrendered:   *)
(* a seat is three tiles short only if the seat it receives from dropped   *)
(* out, three over only if it dropped out itself, and no tile is lost.     *)
(* Until the last seat has submitted, the selection of every seat that     *)
(* submitted and stayed in is kept, and the first one set the direction.   *)
ExchangeSkewedOnlyBySurrender ==
    /\ exchangeSubmitted # Seats =>
          /\ offers \subseteq exchangeSubmitted
          /\ exchangeSubmitted \ surrendered \subseteq offers
          /\ direction = 0 <=> exchangeSubmitted = {}
    /\ exchangeSubmitted = Seats =>
          /\ dealt[0] + dealt[1] + dealt[2] + dealt[3] = 4 * HandSize
          /\ \A s \in Seats :
                /\ dealt[s] < HandSize => (s + direction) % 4 \in surrendered
                /\ dealt[s] > HandSize => s \in surrendered

(* The "earthly win" flag is up only while the dealer's first discard can  *)
(* still be claimed: no path out of that window leaves it set for a later  *)
(* discard or for an added gang.                                           *)
EarthlyWindow ==
    dealerFirstDiscardOpen /\ ~closed =>
        /\ phase = "Claim" /\ lastDiscardSeat = Dealer
        /\ pendingGang = NoSeat
        /\ openingDrawSeat = NoSeat

(* No tile ever goes back to the wall: rewindInterruptedTurn finds no open *)
(* draw in any claim, whatever preceded it.                                *)
WallNeverGrows == [][wall' <= wall]_vars

(* Play goes on after a claim window only once every seat that could win   *)
(* on the tile has been served: a win or a refusal never leaves another    *)
(* winner unasked, and a seat without a win of its own never melds past a  *)
(* winner.                                                                 *)
WinnersBeforePlay ==
    [][ phase = "Claim" /\ phase' # "Claim" /\ ~closed' =>
          LET W == {s \in Seats : "hu" \in cands[s]}
          IN  \/ W = {}
              \/ melds' = melds /\ \A s, o \in W : s = o
              \/ \E s \in W : melds'[s] # melds[s] ]_vars

-----------------------------------------------------------------------------
(* The inductive invariant.                                                *)

(* What the safety properties rest on: the opening is over exactly when    *)
(* its steps are; no draw is open while a discard can be claimed; a robbed *)
(* gang is forgotten with the next draw; the seat of a pending added gang  *)
(* still has the pong; a hand never runs out; a claim to meld is backed by *)
(* tiles.                                                                  *)
Bookkeeping ==
    /\ closed => phase = "None"
    /\ phase = "Opening" <=> OpeningStep # "done"
    /\ phase = "Opening" => \A s \in Seats : melds[s] = 0 /\ hand[s] = dealt[s]
    /\ OpeningStep = "exchange" => /\ missingSubmitted = {}
                                  /\ \A s \in Seats : dealt[s] = HandSize
    /\ phase = "Claim" /\ pendingGang = NoSeat => ~currentDraw
    /\ robbed => phase = "None" \/ pendingGang # NoSeat
    /\ pendingGang # NoSeat /\ ~robbed => pongs[pendingGang] > 0
    /\ \A s \in Seats : Base(s) >= 1
    /\ \A s \in Seats : ("pong" \in cands[s] => hand[s] >= 2)
                        /\ ("gang" \in cands[s] => hand[s] >= 3)

IInv ==
    /\ TypeOK /\ HandShape /\ ClaimWindowAnswerable /\ WaitsUnlessGangRobbed
    /\ Bookkeeping

-----------------------------------------------------------------------------
(* Liveness.                                                               *)

(* The opening waits only for seats that have surrendered: in an earlier   *)
(* step of it, or by leaving.  ApplyTimeout passes them over               *)
(* (engine_timeout.go:27-31), so nothing moves such an opening on but the  *)
(* players it has given up.                                                *)
OpeningStalled == phase = "Opening" /\ Owing \subseteq surrendered

(* A pass after a robbed added gang left the round without phase and       *)
(* deadline (completeBuGang fails behind the cleared window).              *)
GangStalled == ~closed /\ phase = "None"

(* With nobody obliged to act, the timeouts alone bring every round to its *)
(* settlement, unless it stalls in one of these two ways: no other state   *)
(* of a round, with exchange, departures and several robbers, is one that  *)
(* absent players can hold for good.                                       *)
RoundEndsOrStalls == []<>(closed \/ OpeningStalled \/ GangStalled)
=============================================================================
