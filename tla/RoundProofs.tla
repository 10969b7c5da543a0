----------------------------- MODULE RoundProofs -----------------------------
(***************************************************************************)
(* Proofs about RoundEngine and RoundPersist, for every wall size, rule    *)
(* variant and bound.  IInv is an inductive invariant of the engine, hence *)
(* so are the type invariant, the shape of the hands, the claim windows    *)
(* and the absence of other stalls.  What a restart restores is what was   *)
(* saved, so the same invariant survives any number of crashes; and the    *)
(* phase token a client makes of whatever it heard last of the current     *)
(* state is accepted.                                                      *)
(***************************************************************************)
EXTENDS RoundPersist, FiniteSetTheorems, TLAPS


USE DEF Seats, NoSeat, Dealer, HandSize

(* The part of TypeOK a draw or the end of the round does not write.       *)
SideTypes ==
    /\ step \in Nat
    /\ melds \in [Seats -> Nat] /\ pongs \in [Seats -> Nat]
    /\ hued \in SUBSET Seats /\ surrendered \in SUBSET Seats
    /\ openingDrawSeat \in {Dealer, NoSeat} /\ dealerFirstDiscardOpen \in BOOLEAN
    /\ lastGangFollowUp \in BOOLEAN /\ lastDiscardAfterGang \in BOOLEAN
    /\ exchangeSubmitted \in SUBSET Seats /\ missingSubmitted \in SUBSET Seats
    /\ offers \in SUBSET Seats /\ direction \in 0..3
    /\ dealt \in [Seats -> {10, 13, 16}]

(* A state outside the opening in which no hand has run out.               *)
SideOK == SideTypes /\ OpeningStep = "done" /\ \A s \in Seats : Base(s) >= 1

(* Hands h owe nothing and are owed nothing once the step is over; only a  *)
(* seat in S may hold one tile too many.                                   *)
Settled(h, S) ==
    /\ h \in [Seats -> Nat]
    /\ \A s \in Seats : \/ h[s] = dealt'[s] - 3 * melds'[s]
                        \/ s \in S /\ h[s] = dealt'[s] - 3 * melds'[s] + 1

-----------------------------------------------------------------------------
(* nextActiveSeat returns a seat: an active one, or the one it started at. *)
LEMMA NextActiveSeatRange ==
    ASSUME NEW from \in Seats, NEW A \in SUBSET Seats
    PROVE  /\ NextActiveSeat(from, A) \in Seats
           /\ NextActiveSeat(from, A) \in A \/ NextActiveSeat(from, A) = from
           /\ A # {} => NextActiveSeat(from, A) \in A
<1> DEFINE P(k) == /\ (from + k) % 4 \in A
                   /\ \A j \in 1..(k - 1) : (from + j) % 4 \notin A
<1>1. CASE \E k \in 1..4 : (from + k) % 4 \in A
  <2>1. \E k \in 1..4 : P(k)
    <3>1. CASE (from + 1) % 4 \in A
      <4>1. P(1)
        BY <3>1
      <4> QED
        BY <4>1
    <3>2. CASE (from + 1) % 4 \notin A /\ (from + 2) % 4 \in A
      <4>1. P(2)
        BY <3>2
      <4> QED
        BY <4>1
    <3>3. CASE /\ (from + 1) % 4 \notin A /\ (from + 2) % 4 \notin A
               /\ (from + 3) % 4 \in A
      <4>1. P(3)
        BY <3>3
      <4> QED
        BY <4>1
    <3>4. CASE /\ (from + 1) % 4 \notin A /\ (from + 2) % 4 \notin A
               /\ (from + 3) % 4 \notin A
      <4>1. (from + 4) % 4 \in A
        BY <1>1, <3>4
      <4>2. P(4)
        BY <4>1, <3>4
      <4> QED
        BY <4>2
    <3> QED
      BY <3>1, <3>2, <3>3, <3>4
  <2>2. PICK k \in 1..4 : k = (CHOOSE i \in 1..4 : P(i)) /\ P(k)
    BY <2>1
  <2>3. NextActiveSeat(from, A) = (from + k) % 4
    BY <1>1, <2>2 DEF NextActiveSeat
  <2> QED
    BY <2>2, <2>3
<1>2. CASE ~\E k \in 1..4 : (from + k) % 4 \in A
  <2>1. \A a \in Seats : \E k \in 1..4 : (from + k) % 4 = a
    <3> TAKE a \in Seats
    <3>1. CASE a > from
      <4>1. a - from \in 1..4 /\ (from + (a - from)) % 4 = a
        BY <3>1
      <4> QED
        BY <4>1
    <3>2. CASE a <= from
      <4>1. a - from + 4 \in 1..4 /\ (from + (a - from + 4)) % 4 = a
        BY <3>2
      <4> QED
        BY <4>1
    <3> QED
      BY <3>1, <3>2
  <2>2. A = {}
    BY <1>2, <2>1
  <2> QED
    BY <1>2, <2>2 DEF NextActiveSeat
<1> QED
  BY <1>1, <1>2

(* finishRound leaves a closed round with the invariant. *)
LEMMA FinishStep ==
    ASSUME NEW t \in Seats, NEW h, NEW w \in 0..WallSize,
           SideOK', Settled(h, surrendered'), FinishRound(t, h, w)
    PROVE  IInv'
<1> USE DEF FinishRound, DropCandidates, EnterPhase
<1>1. TypeOK'
  BY DEF TypeOK, SideOK, SideTypes, Settled, Phases, Deadlines, NoCands, ClaimActions
<1>2. HandShape'
  BY DEF SideOK, SideTypes, Settled, HandShape, Base, Holds, Idle, NoCands
<1>3. ClaimWindowAnswerable'
  BY DEF ClaimWindowAnswerable, NoCands
<1>4. WaitsUnlessGangRobbed'
  BY DEF WaitsUnlessGangRobbed
<1>5. Bookkeeping'
  BY DEF SideOK, Bookkeeping, Base, NoCands, OpeningStep
<1> QED
  BY <1>1, <1>2, <1>3, <1>4, <1>5 DEF IInv

(* drawForCurrentTurn leaves the invariant, whoever it draws for, provided *)
(* that seat's own hand is settled.                                        *)
LEMMA DrawStep ==
    ASSUME NEW t \in Seats, NEW h, NEW w \in 0..WallSize,
           NEW from \in Seats \cup {NoSeat},
           SideOK', Settled(h, surrendered' \ {t}), closed = FALSE,
           DrawForCurrentTurn(t, h, w, from)
    PROVE  IInv'
<1>1. CASE FinishRound(t, h, w)
  <2>1. Settled(h, surrendered')
    BY DEF Settled
  <2> QED
    BY <1>1, <2>1, FinishStep
<1>2. CASE ~FinishRound(t, h, w)
  <2> USE DEF DropCandidates, EnterPhase
  <2>1. /\ w # 0 /\ wall' = w - 1 /\ turn' = t /\ currentDraw' = TRUE
        /\ lastDiscardSeat' = from /\ cands' = NoCands /\ pendingGang' = NoSeat
        /\ robbed' = FALSE /\ closed' = FALSE
        /\ \/ hand' = h /\ pendingDraw' = TRUE /\ EnterPhase("Tsumo")
           \/ /\ hand' = [h EXCEPT ![t] = @ + 1]
              /\ pendingDraw' = FALSE /\ EnterPhase("Discard")
    BY <1>2 DEF DrawForCurrentTurn, ShouldFinishRound
  <2>2. /\ h \in [Seats -> Nat] /\ hand' \in [Seats -> Nat]
        /\ \A s \in Seats : hand'[s] = h[s] + (IF phase' = "Discard" /\ s = t THEN 1 ELSE 0)
    BY <2>1 DEF Settled
  <2>b. wall' \in 0..WallSize
    BY <2>1, WallAssumption
  <2>3. TypeOK'
    BY <2>1, <2>2, <2>b
    DEF TypeOK, SideOK, SideTypes, Phases, Deadlines, NoCands, ClaimActions
  <2>4. HandShape'
    BY <2>1, <2>2 DEF SideOK, SideTypes, Settled, HandShape, Base, Holds, Idle, NoCands
  <2>5. ClaimWindowAnswerable'
    BY <2>1 DEF ClaimWindowAnswerable, NoCands
  <2>6. WaitsUnlessGangRobbed'
    BY <2>1 DEF WaitsUnlessGangRobbed
  <2>7. Bookkeeping'
    BY <2>1 DEF SideOK, Bookkeeping, Base, NoCands, OpeningStep
  <2> QED
    BY <2>3, <2>4, <2>5, <2>6, <2>7 DEF IInv
<1> QED
  BY <1>1, <1>2

-----------------------------------------------------------------------------
(* A freshly dealt round satisfies the invariant. *)
LEMMA InitIInv == Init => IInv
<1> SUFFICES ASSUME Init PROVE IInv
  OBVIOUS
<1> USE DEF Init
<1>0. wall \in 0..WallSize
  BY WallAssumption
<1>a. /\ hand \in [Seats -> Nat] /\ dealt \in [Seats -> {10, 13, 16}]
      /\ melds \in [Seats -> Nat] /\ pongs \in [Seats -> Nat]
  OBVIOUS
<1>b. cands \in [Seats -> SUBSET ClaimActions]
  BY DEF NoCands
<1>c. /\ phase \in Phases /\ deadline \in Deadlines
      /\ turn \in Seats /\ step \in Nat
      /\ lastDiscardSeat \in Seats \cup {NoSeat}
      /\ pendingGang \in Seats \cup {NoSeat}
      /\ openingDrawSeat \in {Dealer, NoSeat} /\ direction \in 0..3
  BY DEF Phases, Deadlines
<1>d. /\ hued \in SUBSET Seats /\ surrendered \in SUBSET Seats
      /\ exchangeSubmitted \in SUBSET Seats /\ missingSubmitted \in SUBSET Seats
      /\ offers \in SUBSET Seats
  OBVIOUS
<1>e. /\ robbed \in BOOLEAN /\ pendingDraw \in BOOLEAN /\ currentDraw \in BOOLEAN
      /\ closed \in BOOLEAN /\ dealerFirstDiscardOpen \in BOOLEAN
      /\ lastGangFollowUp \in BOOLEAN /\ lastDiscardAfterGang \in BOOLEAN
  OBVIOUS
<1>1. TypeOK
  BY <1>0, <1>a, <1>b, <1>c, <1>d, <1>e DEF TypeOK
<1>2. HandShape
  BY DEF HandShape, Base, Holds
<1>3. ClaimWindowAnswerable
  BY DEF ClaimWindowAnswerable, NoCands
<1>4. WaitsUnlessGangRobbed
  BY DEF WaitsUnlessGangRobbed
<1>5. Bookkeeping
  BY DEF Bookkeeping, Base, NoCands, OpeningStep
<1> QED
  BY <1>1, <1>2, <1>3, <1>4, <1>5 DEF IInv

(* Outside the opening the side conditions of a draw hold before the step. *)
LEMMA SideOKNow ==
    ASSUME IInv, phase # "Opening"
    PROVE  SideOK
BY DEF IInv, TypeOK, Bookkeeping, SideOK, SideTypes

(* What claimPolicy offers on a discard: never to the discarder or to a    *)
(* seat out of the rotation, and a meld only to a seat with tiles for it.  *)
LEMMA DiscardCandidatesOK ==
    ASSUME NEW src \in Seats, NEW h \in [Seats -> Nat], NEW A \in SUBSET Seats,
           NEW c \in DiscardCandidates(src, h, A)
    PROVE  /\ c \in [Seats -> SUBSET ClaimActions]
           /\ \A s \in Seats : c[s] # {} => s \in A \ {src}
           /\ \A s \in Seats : ("pong" \in c[s] => h[s] >= 2)
                               /\ ("gang" \in c[s] => h[s] >= 3)
<1> DEFINE others == A \ {src}
           Holding(n) == {s \in others : h[s] >= n /\ melds[s] < MaxMelds}
           Melding == {<<NoSeat, {}>>} \cup (Holding(2) \X {{"pong"}})
                      \cup (Holding(3) \X {{"gang", "pong"}})
<1>1. PICK H \in SUBSET {s \in others : CanHu(s, h, melds, A)}, g \in Melding :
           c = [s \in Seats |-> (IF s \in H THEN {"hu"} ELSE {})
                               \cup (IF s = g[1] THEN g[2] ELSE {})]
  BY DEF DiscardCandidates
<1>2. /\ g[2] \in SUBSET {"gang", "pong"}
      /\ g[2] # {} => g[1] \in others /\ h[g[1]] >= 2
      /\ "gang" \in g[2] => h[g[1]] >= 3
  <2>1. CASE g = <<NoSeat, {}>>
    <3>1. g[1] = NoSeat /\ g[2] = {}
      BY <2>1
    <3> QED
      BY <3>1
  <2>2. CASE g \in Holding(2) \X {{"pong"}}
    <3>1. g[1] \in Holding(2) /\ g[2] = {"pong"}
      BY <2>2
    <3> QED
      BY <3>1
  <2>3. CASE g \in Holding(3) \X {{"gang", "pong"}}
    <3>1. g[1] \in Holding(3) /\ g[2] = {"gang", "pong"}
      BY <2>3
    <3>2. g[1] \in others /\ g[1] \in Seats /\ h[g[1]] \in Nat /\ h[g[1]] >= 3
      BY <3>1
    <3>3. h[g[1]] >= 2
      BY <3>2
    <3> QED
      BY <3>1, <3>2, <3>3
  <2> QED
    BY <2>1, <2>2, <2>3
<1>3. \A s \in Seats : c[s] = (IF s \in H THEN {"hu"} ELSE {})
                              \cup (IF s = g[1] THEN g[2] ELSE {})
  BY <1>1
<1>4. c \in [Seats -> SUBSET ClaimActions]
  BY <1>1, <1>2 DEF ClaimActions
<1> HIDE DEF Melding, Holding
<1>5. \A s \in Seats : c[s] # {} => s \in others
  BY <1>1, <1>2, <1>3
<1>6. \A s \in Seats : ("pong" \in c[s] => h[s] >= 2) /\ ("gang" \in c[s] => h[s] >= 3)
  BY <1>2, <1>3
<1> QED
  BY <1>4, <1>5, <1>6

(* The same for the tile of an added gang: only wins are offered. *)
LEMMA QiangGangCandidatesOK ==
    ASSUME NEW src \in Seats, NEW h \in [Seats -> Nat], NEW A \in SUBSET Seats,
           NEW c \in QiangGangCandidates(src, h, A)
    PROVE  /\ c \in [Seats -> SUBSET ClaimActions]
           /\ \A s \in Seats : c[s] # {} => s \in A \ {src}
           /\ \A s \in Seats : c[s] \subseteq {"hu"}
<1>1. PICK H \in SUBSET (A \ {src}) :
           c = [s \in Seats |-> IF s \in H THEN {"hu"} ELSE {}]
  BY DEF QiangGangCandidates
<1> QED
  BY <1>1 DEF ClaimActions

-----------------------------------------------------------------------------
(* One lemma per operation: it keeps the invariant.                        *)

(* The actors of the opening. *)
LEMMA ExchangeStep ==
    ASSUME IInv, NEW s \in Seats, NEW dir \in 1..3, NEW offering \in BOOLEAN,
           ApplyExchange(s, dir, offering),
           surrendered' \in SUBSET Seats,
           UNCHANGED <<meldVars, hued, flagVars, step>>
    PROVE  IInv'
<1> USE DEF meldVars, flagVars, drawVars
<1> DEFINE O == IF offering THEN offers \cup {s} ELSE offers
           d == IF direction = 0 THEN dir ELSE direction
<1>1. /\ OpeningStep = "exchange" /\ phase = "Opening" /\ missingSubmitted = {}
      /\ WithExchange
      /\ \A o \in Seats : hand[o] = 13 /\ dealt[o] = 13 /\ melds[o] = 0
      /\ d \in 1..3 /\ O \in SUBSET Seats
      /\ phase' = "Opening" /\ deadline' = "running"
      /\ exchangeSubmitted' = exchangeSubmitted \cup {s}
      /\ direction' = d
      /\ missingSubmitted' = missingSubmitted
  BY DEF IInv, TypeOK, Bookkeeping, ApplyExchange, OpeningStep, EnterPhase
<1>2. /\ cands = NoCands /\ pendingGang = NoSeat /\ closed = FALSE /\ robbed = FALSE
      /\ UNCHANGED <<wall, pendingDraw, currentDraw, turn, closed, cands,
                     lastDiscardSeat, pendingGang, robbed, melds, pongs>>
  BY <1>1 DEF IInv, TypeOK, ClaimWindowAnswerable, Bookkeeping, ApplyExchange
<1>3. /\ offers' \in SUBSET Seats
      /\ hand' \in [Seats -> Nat] /\ dealt' \in [Seats -> {10, 13, 16}]
      /\ \A o \in Seats : hand'[o] = dealt'[o]
      /\ exchangeSubmitted' # Seats => \A o \in Seats : dealt'[o] = 13
  <2>1. CASE exchangeSubmitted' = Seats
    <3>1. offers' = {} /\ hand' = ExchangeThree(O, d) /\ dealt' = hand'
      BY <2>1 DEF ApplyExchange
    <3>2. ExchangeThree(O, d) \in [Seats -> {10, 13, 16}]
      BY <1>1 DEF ExchangeThree
    <3> QED
      BY <2>1, <3>1, <3>2
  <2>2. CASE exchangeSubmitted' # Seats
    <3>1. offers' = O /\ hand' = hand /\ dealt' = dealt
      BY <2>2 DEF ApplyExchange
    <3> QED
      BY <1>1, <3>1 DEF IInv, TypeOK
  <2> QED
    BY <2>1, <2>2
<1> HIDE DEF O, d
<1>4. TypeOK'
  BY <1>1, <1>2, <1>3 DEF IInv, TypeOK, Phases, Deadlines
<1>5. HandShape'
  BY <1>1, <1>2, <1>3 DEF HandShape, Base, Holds
<1>6. ClaimWindowAnswerable'
  BY <1>1, <1>2 DEF ClaimWindowAnswerable, NoCands
<1>7. WaitsUnlessGangRobbed'
  BY <1>1, <1>2 DEF WaitsUnlessGangRobbed
<1>8. Bookkeeping'
  <2>1. OpeningStep' # "done"
    BY <1>1 DEF OpeningStep
  <2>2. OpeningStep' = "exchange" => exchangeSubmitted' # Seats
    BY DEF OpeningStep
  <2>3. \A o \in Seats : dealt'[o] - 3 * melds'[o] >= 1
    BY <1>1, <1>2, <1>3
  <2> QED
    BY <1>1, <1>2, <1>3, <2>1, <2>2, <2>3 DEF Bookkeeping, Base, NoCands
<1> QED
  BY <1>4, <1>5, <1>6, <1>7, <1>8 DEF IInv

(* applyMissingSuit, with the first draw after the last seat, keeps IInv. *)
LEMMA MissingSuitStep ==
    ASSUME IInv, NEW s \in Seats, ApplyMissingSuit(s),
           surrendered' \in SUBSET Seats,
           UNCHANGED <<meldVars, hued, flagVars, step>>
    PROVE  IInv'
<1> USE DEF meldVars, flagVars, drawVars
<1>1. /\ OpeningStep = "missing" /\ phase = "Opening"
      /\ \A o \in Seats : hand[o] = dealt[o] /\ melds[o] = 0
      /\ missingSubmitted' = missingSubmitted \cup {s}
      /\ UNCHANGED <<exchangeSubmitted, offers, direction, dealt, melds, pongs>>
      /\ closed = FALSE
  BY DEF IInv, TypeOK, Bookkeeping, ApplyMissingSuit, OpeningStep
<1>2. SideTypes'
  BY <1>1 DEF IInv, TypeOK, SideTypes
<1>3. \A o \in Seats : dealt'[o] - 3 * melds'[o] >= 1
  BY <1>1 DEF IInv, TypeOK
<1>4. CASE missingSubmitted' = Seats
  <2>1. SideOK'
    BY <1>1, <1>2, <1>3, <1>4 DEF SideOK, OpeningStep, Base
  <2>2. Settled(hand, surrendered' \ {turn})
    BY <1>1 DEF Settled, IInv, TypeOK
  <2>3. DrawForCurrentTurn(turn, hand, wall, lastDiscardSeat)
    BY <1>4 DEF ApplyMissingSuit
  <2> QED
    BY <1>1, <2>1, <2>2, <2>3, DrawStep DEF IInv, TypeOK
<1>5. CASE missingSubmitted' # Seats
  <2>1. /\ phase' = "Opening" /\ deadline' = "running"
        /\ UNCHANGED <<hand, wall, pendingDraw, currentDraw, turn, closed, cands,
                       lastDiscardSeat, pendingGang, robbed>>
    BY <1>5 DEF ApplyMissingSuit, EnterPhase
  <2>2. cands = NoCands /\ pendingGang = NoSeat /\ robbed = FALSE
    BY <1>1 DEF IInv, TypeOK, ClaimWindowAnswerable, Bookkeeping
  <2>3. TypeOK'
    BY <1>1, <1>2, <2>1 DEF IInv, TypeOK, SideTypes, Phases, Deadlines
  <2>4. HandShape'
    BY <1>1, <2>1, <2>2 DEF HandShape, Base, Holds, IInv, TypeOK
  <2>5. ClaimWindowAnswerable'
    BY <2>1, <2>2 DEF ClaimWindowAnswerable, NoCands
  <2>6. WaitsUnlessGangRobbed'
    BY <2>1 DEF WaitsUnlessGangRobbed
  <2>7. Bookkeeping'
    <3>1. OpeningStep' = "missing"
      BY <1>1, <1>5 DEF OpeningStep
    <3> QED
      BY <1>1, <1>3, <2>1, <2>2, <3>1 DEF Bookkeeping, Base, NoCands
  <2> QED
    BY <2>3, <2>4, <2>5, <2>6, <2>7 DEF IInv
<1> QED
  BY <1>4, <1>5

(* While the turn seat is to act nothing is offered to anybody; its hand   *)
(* is settled but for the tile it is about to discard, and the only other  *)
(* unsettled hands belong to seats that dropped out.                       *)
LEMMA TurnFacts ==
    ASSUME IInv, phase \in {"Tsumo", "Discard"}
    PROVE  /\ SideOK /\ closed = FALSE /\ robbed = FALSE
           /\ \A o \in Seats : Base(o) \in Nat
           /\ cands = NoCands /\ pendingGang = NoSeat
           /\ hand \in [Seats -> Nat] /\ turn \in Seats /\ wall \in 0..WallSize
           /\ hand[turn] = Base(turn) + (IF phase = "Discard" THEN 1 ELSE 0)
           /\ \A o \in Seats \ {turn} :
                 \/ hand[o] = Base(o)
                 \/ o \in surrendered /\ hand[o] = Base(o) + 1
<1>1. SideOK
  BY SideOKNow
<1>2. /\ closed = FALSE /\ robbed = FALSE /\ cands = NoCands /\ pendingGang = NoSeat
      /\ hand \in [Seats -> Nat] /\ turn \in Seats /\ wall \in 0..WallSize
  BY DEF IInv, TypeOK, ClaimWindowAnswerable, Bookkeeping
<1>3. \A o \in Seats : Base(o) \in Nat
  BY <1>1 DEF SideOK, SideTypes, Base
<1> QED
  BY <1>1, <1>2, <1>3 DEF IInv, HandShape, Holds, Idle

(* The unchanged side conditions carry over a step. *)
LEMMA SideOKNext ==
    ASSUME SideOK, SideTypes',
           UNCHANGED <<exchangeSubmitted, missingSubmitted, dealt, melds>>
    PROVE  SideOK'
BY DEF SideOK, Base, OpeningStep

(* ApplyDiscard keeps IInv. *)
LEMMA DiscardStep ==
    ASSUME IInv, NEW s \in Seats, Discard(s)
    PROVE  IInv'
<1> USE DEF meldVars, seatVars, openingVars
<1> DEFINE left == [HandWithPending(s) EXCEPT ![s] = @ - 1]
           A == Active(hued, surrendered)
           next == NextActiveSeat(s, A)
<1>1. /\ s = turn /\ phase \in {"Tsumo", "Discard"}
      /\ UNCHANGED <<openingVars, meldVars, seatVars>>
  BY DEF Discard
<1>2. /\ SideOK /\ closed = FALSE /\ robbed = FALSE
      /\ cands = NoCands /\ pendingGang = NoSeat
      /\ hand \in [Seats -> Nat] /\ wall \in 0..WallSize
      /\ hand[s] = Base(s) + (IF phase = "Discard" THEN 1 ELSE 0)
      /\ \A o \in Seats \ {s} : \/ hand[o] = Base(o)
                                \/ o \in surrendered /\ hand[o] = Base(o) + 1
  BY <1>1, TurnFacts
<1>3. \A o \in Seats : Base(o) \in Nat /\ Base(o) >= 1
  BY <1>2 DEF SideOK, SideTypes, Base
<1>4. left = [hand EXCEPT ![s] = Base(s)]
  <2>1. CASE phase = "Tsumo"
    BY <1>2, <1>3, <2>1 DEF HandWithPending
  <2>2. CASE phase = "Discard"
    <3>1. HandWithPending(s) = hand
      BY <2>2 DEF HandWithPending
    <3>2. hand[s] = Base(s) + 1 /\ Base(s) \in Nat
      BY <1>2, <1>3, <2>2
    <3>3. hand[s] - 1 = Base(s)
      BY <3>2
    <3> QED
      BY <3>1, <3>3
  <2> QED
    BY <1>1, <2>1, <2>2
<1>5. Settled(left, surrendered' \ {s})
  BY <1>1, <1>2, <1>3, <1>4 DEF Settled, Base
<1>6. SideTypes'
  <2>1. /\ step' = step + 1
        /\ openingDrawSeat' \in {openingDrawSeat, NoSeat}
        /\ lastDiscardAfterGang' = lastGangFollowUp /\ lastGangFollowUp' = FALSE
    BY DEF Discard
  <2>2. dealerFirstDiscardOpen' \in BOOLEAN
    BY DEF Discard, CloseOpeningClaimWindow
  <2>3. step' \in Nat /\ openingDrawSeat' \in {Dealer, NoSeat}
    BY <1>2, <2>1 DEF SideOK, SideTypes
  <2>4. lastDiscardAfterGang' \in BOOLEAN /\ lastGangFollowUp' \in BOOLEAN
    BY <1>2, <2>1 DEF SideOK, SideTypes
  <2> QED
    BY <1>1, <1>2, <2>2, <2>3, <2>4 DEF SideOK, SideTypes
<1>7. SideOK'
  BY <1>1, <1>2, <1>6, SideOKNext
<1>8. A \in SUBSET Seats /\ next \in Seats /\ (next \in A \/ next = s)
  BY NextActiveSeatRange DEF Active
<1>9. Settled(left, surrendered' \ {next})
  BY <1>1, <1>5, <1>8 DEF Settled, Active
<1> HIDE DEF left, A, next
<1>10. CASE FinishRound(turn, left, wall)
  <2>1. Settled(left, surrendered')
    BY <1>5 DEF Settled
  <2> QED
    BY <1>1, <1>2, <1>7, <1>10, <2>1, FinishStep
<1>11. CASE DrawForCurrentTurn(next, left, wall, s)
  BY <1>2, <1>7, <1>8, <1>9, <1>11, DrawStep
<1>12. ASSUME NEW c \in DiscardCandidates(s, left, A),
              /\ c # NoCands
              /\ cands' = c
              /\ lastDiscardSeat' = s
              /\ turn' = next
              /\ hand' = left
              /\ pendingDraw' = FALSE /\ currentDraw' = FALSE
              /\ EnterPhase("Claim")
              /\ UNCHANGED <<wall, pendingGang, robbed, closed>>
       PROVE  IInv'
  <2>1. left \in [Seats -> Nat]
    BY <1>5 DEF Settled
  <2>2. /\ c \in [Seats -> SUBSET ClaimActions]
        /\ \A o \in Seats : c[o] # {} => o \in A \ {s}
        /\ \A o \in Seats : ("pong" \in c[o] => left[o] >= 2)
                            /\ ("gang" \in c[o] => left[o] >= 3)
    BY <1>8, <1>12, <2>1, DiscardCandidatesOK
  <2>3. phase' = "Claim" /\ deadline' = "running"
    BY <1>12 DEF EnterPhase
  <2>4. TypeOK'
    BY <1>2, <1>6, <1>8, <1>12, <2>1, <2>2, <2>3
    DEF TypeOK, SideTypes, Phases, Deadlines
  <2>5. HandShape'
    BY <1>1, <1>2, <1>5, <1>8, <1>12, <2>2, <2>3
    DEF Settled, HandShape, Base, Holds, Idle, A, Active
  <2>6. ClaimWindowAnswerable'
    BY <1>1, <1>2, <1>12, <2>2, <2>3 DEF ClaimWindowAnswerable, A, Active
  <2>7. WaitsUnlessGangRobbed'
    BY <2>3 DEF WaitsUnlessGangRobbed
  <2>8. Bookkeeping'
    BY <1>2, <1>7, <1>12, <2>2, <2>3 DEF Bookkeeping, SideOK, OpeningStep
  <2> QED
    BY <2>4, <2>5, <2>6, <2>7, <2>8 DEF IInv
<1> QED
  BY <1>10, <1>11, <1>12 DEF Discard, left, A, next

(* The pending tile joins the hand of the turn seat. *)
LEMMA TakePendingStep ==
    ASSUME IInv, phase = "Tsumo", SideTypes',
           hand' = HandWithPending(turn),
           pendingDraw' = FALSE,
           EnterPhase("Discard"),
           UNCHANGED <<exchangeSubmitted, missingSubmitted, dealt, melds, surrendered,
                       turn, closed, wall, currentDraw, cands, lastDiscardSeat,
                       pendingGang, robbed>>
    PROVE  IInv'
<1>1. /\ SideOK /\ closed = FALSE /\ robbed = FALSE
      /\ cands = NoCands /\ pendingGang = NoSeat
      /\ hand \in [Seats -> Nat] /\ turn \in Seats /\ wall \in 0..WallSize
      /\ hand[turn] = Base(turn)
      /\ \A o \in Seats \ {turn} : \/ hand[o] = Base(o)
                                   \/ o \in surrendered /\ hand[o] = Base(o) + 1
  BY TurnFacts
<1>2. SideOK'
  BY <1>1, SideOKNext
<1>3. phase' = "Discard" /\ deadline' = "running" /\ hand' = [hand EXCEPT ![turn] = @ + 1]
  BY DEF EnterPhase, HandWithPending
<1>a. hand' \in [Seats -> Nat]
  BY <1>1, <1>3
<1>4. TypeOK'
  BY <1>1, <1>3, <1>a DEF IInv, TypeOK, SideTypes, Phases, Deadlines
<1>5. HandShape'
  BY <1>1, <1>3 DEF HandShape, Base, Holds, Idle, SideOK, SideTypes, NoCands
<1>6. ClaimWindowAnswerable'
  BY <1>1, <1>3 DEF ClaimWindowAnswerable, NoCands
<1>7. WaitsUnlessGangRobbed'
  BY <1>3 DEF WaitsUnlessGangRobbed
<1>8. Bookkeeping'
  BY <1>1, <1>2, <1>3 DEF Bookkeeping, SideOK, OpeningStep, NoCands
<1> QED
  BY <1>4, <1>5, <1>6, <1>7, <1>8 DEF IInv

(* ApplyHu on a drawn tile keeps IInv. *)
LEMMA HuTsumoStep ==
    ASSUME IInv, NEW s \in Seats, HuTsumo(s)
    PROVE  IInv'
<1> USE DEF meldVars, openingVars
<1> DEFINE A == Active(hued \cup {s}, surrendered)
           next == NextActiveSeat(s, A)
<1>1. /\ s = turn /\ phase = "Tsumo"
      /\ UNCHANGED <<openingVars, meldVars, surrendered>>
  BY DEF HuTsumo
<1>2. /\ SideOK /\ closed = FALSE
      /\ hand \in [Seats -> Nat] /\ wall \in 0..WallSize
      /\ hand[s] = Base(s)
      /\ \A o \in Seats \ {s} : \/ hand[o] = Base(o)
                                \/ o \in surrendered /\ hand[o] = Base(o) + 1
  BY <1>1, TurnFacts
<1>3. SideTypes'
  BY <1>1, <1>2 DEF SideOK, SideTypes, HuTsumo
<1>4. SideOK'
  BY <1>1, <1>2, <1>3, SideOKNext
<1>5. next \in Seats /\ (next \in A \/ next = s)
  BY NextActiveSeatRange DEF Active
<1>6. Settled(hand, surrendered') /\ Settled(hand, surrendered' \ {next})
  BY <1>1, <1>2, <1>5 DEF Settled, Base, Active
<1>7. lastDiscardSeat \in Seats \cup {NoSeat}
  BY DEF IInv, TypeOK
<1> HIDE DEF next
<1>8. CASE FinishRound(turn, hand, wall)
  BY <1>1, <1>2, <1>4, <1>6, <1>8, FinishStep
<1>9. CASE DrawForCurrentTurn(next, hand, wall, lastDiscardSeat)
  BY <1>2, <1>4, <1>5, <1>6, <1>7, <1>9, DrawStep
<1> QED
  BY <1>8, <1>9 DEF HuTsumo, next

(* In a claim window the candidates, the discarder and the seat next in    *)
(* turn all have settled hands, except that the seat of a pending added    *)
(* gang still holds the tile that may be robbed.                           *)
LEMMA ClaimFacts ==
    ASSUME IInv, phase = "Claim"
    PROVE  /\ SideOK /\ closed = FALSE
           /\ hand \in [Seats -> Nat] /\ turn \in Seats /\ wall \in 0..WallSize
           /\ cands \in [Seats -> SUBSET ClaimActions]
           /\ lastDiscardSeat \in Seats
           /\ \A o \in Seats : Base(o) \in Nat /\ Base(o) >= 1
           /\ \A o \in Seats : cands[o] # {} => o # lastDiscardSeat /\ o \notin hued
           /\ \A o \in Seats :
                 \/ hand[o] = Base(o) + (IF pendingGang = o /\ ~robbed THEN 1 ELSE 0)
                 \/ /\ o \in surrendered /\ cands[o] = {}
                    /\ o # turn /\ o # lastDiscardSeat
                    /\ hand[o] = Base(o) + 1
           /\ pendingGang # NoSeat =>
                 /\ pendingGang = lastDiscardSeat /\ pendingGang = turn
                 /\ pendingGang \in Seats
                 /\ ~robbed => pongs[pendingGang] > 0
                 /\ \A o \in Seats : cands[o] \subseteq {"hu"}
           /\ pendingGang = NoSeat => robbed = FALSE /\ currentDraw = FALSE
<1>1. SideOK
  BY SideOKNow
<1>2. /\ closed = FALSE /\ robbed \in BOOLEAN
      /\ hand \in [Seats -> Nat] /\ turn \in Seats /\ wall \in 0..WallSize
      /\ cands \in [Seats -> SUBSET ClaimActions] /\ lastDiscardSeat \in Seats
      /\ pendingGang \in Seats \cup {NoSeat}
  BY DEF IInv, TypeOK, ClaimWindowAnswerable, Bookkeeping
<1>3. /\ \A o \in Seats : cands[o] # {} => o # lastDiscardSeat /\ o \notin hued
      /\ pendingGang # NoSeat =>
            /\ pendingGang = lastDiscardSeat /\ pendingGang = turn
            /\ pendingGang \in Seats
            /\ ~robbed => pongs[pendingGang] > 0
            /\ \A o \in Seats : cands[o] \subseteq {"hu"}
      /\ pendingGang = NoSeat => robbed = FALSE /\ currentDraw = FALSE
  BY <1>2 DEF IInv, TypeOK, ClaimWindowAnswerable, Bookkeeping
<1>4. \A o \in Seats : Base(o) \in Nat /\ Base(o) >= 1
  BY <1>1 DEF SideOK, SideTypes, Base
<1>5. \A o \in Seats :
          \/ hand[o] = Base(o) + (IF pendingGang = o /\ ~robbed THEN 1 ELSE 0)
          \/ /\ o \in surrendered /\ cands[o] = {}
             /\ o # turn /\ o # lastDiscardSeat
             /\ hand[o] = Base(o) + 1
  BY <1>2 DEF IInv, HandShape, Holds, Idle
<1> QED
  BY <1>1, <1>2, <1>3, <1>4, <1>5

(* ApplyHu on a claimed tile keeps IInv. *)
LEMMA HuClaimStep ==
    ASSUME IInv, NEW s \in Seats, HuClaim(s)
    PROVE  IInv'
<1> USE DEF openingVars
<1> DEFINE robs == pendingGang # NoSeat /\ ~robbed
           left == IF robs THEN [hand EXCEPT ![pendingGang] = @ - 1] ELSE hand
           rest == [cands EXCEPT ![s] = {}]
           A == Active(hued \cup {s}, surrendered)
           next == NextActiveSeat(lastDiscardSeat, A)
<1>1. /\ phase = "Claim" /\ cands[s] # {} /\ hued' = hued \cup {s}
      /\ UNCHANGED <<openingVars, melds, surrendered, openingDrawSeat, step>>
      /\ lastGangFollowUp' = FALSE /\ lastDiscardAfterGang' = FALSE
      /\ dealerFirstDiscardOpen' = FALSE
      /\ pongs' = IF robs THEN [pongs EXCEPT ![pendingGang] = @ - 1] ELSE pongs
  BY DEF HuClaim, IsTopClaimSeat, CloseOpeningClaimWindow
<1>2. /\ SideOK /\ closed = FALSE
      /\ hand \in [Seats -> Nat] /\ turn \in Seats /\ wall \in 0..WallSize
      /\ cands \in [Seats -> SUBSET ClaimActions]
      /\ lastDiscardSeat \in Seats
      /\ \A o \in Seats : Base(o) \in Nat /\ Base(o) >= 1
      /\ \A o \in Seats : cands[o] # {} => o # lastDiscardSeat /\ o \notin hued
      /\ \A o \in Seats :
            \/ hand[o] = Base(o) + (IF pendingGang = o /\ ~robbed THEN 1 ELSE 0)
            \/ /\ o \in surrendered /\ cands[o] = {}
               /\ o # turn /\ o # lastDiscardSeat
               /\ hand[o] = Base(o) + 1
      /\ pendingGang # NoSeat =>
            /\ pendingGang = lastDiscardSeat /\ pendingGang = turn
            /\ pendingGang \in Seats
            /\ ~robbed => pongs[pendingGang] > 0
            /\ \A o \in Seats : cands[o] \subseteq {"hu"}
      /\ pendingGang = NoSeat => robbed = FALSE /\ currentDraw = FALSE
  BY <1>1, ClaimFacts
<1>3. /\ left \in [Seats -> Nat]
      /\ \A o \in Seats : \/ left[o] = Base(o)
                          \/ /\ o \in surrendered /\ cands[o] = {}
                             /\ o # turn /\ o # lastDiscardSeat
                             /\ left[o] = Base(o) + 1
      /\ \A o \in Seats : cands[o] # {} => left[o] = hand[o]
  <2>1. CASE robs
    <3>1. hand[pendingGang] = Base(pendingGang) + 1
      BY <1>2, <2>1
    <3>2. /\ left \in [Seats -> Nat] /\ left[pendingGang] = Base(pendingGang)
          /\ \A o \in Seats \ {pendingGang} : left[o] = hand[o]
      BY <1>2, <2>1, <3>1
    <3> QED
      BY <1>2, <2>1, <3>2
  <2>2. CASE ~robs
    <3>1. left = hand
      BY <2>2
    <3> QED
      BY <1>2, <2>2, <3>1
  <2> QED
    BY <2>1, <2>2
<1> HIDE DEF left
<1>4. SideTypes'
  <2>1. pongs' \in [Seats -> Nat]
    <3>1. CASE robs
      <4>1. pongs[pendingGang] \in Nat /\ pongs[pendingGang] > 0
        BY <1>2, <3>1 DEF SideOK, SideTypes
      <4>2. pongs[pendingGang] - 1 \in Nat
        BY <4>1
      <4> QED
        BY <1>1, <1>2, <3>1, <4>2 DEF SideOK, SideTypes
    <3>2. CASE ~robs
      BY <1>1, <1>2, <3>2 DEF SideOK, SideTypes
    <3> QED
      BY <3>1, <3>2
  <2> HIDE DEF robs
  <2> QED
    BY <1>1, <1>2, <2>1 DEF SideOK, SideTypes
<1>5. SideOK'
  BY <1>1, <1>2, <1>4, SideOKNext
<1>6. next \in Seats /\ (next \in A \/ next = lastDiscardSeat)
  BY <1>2, NextActiveSeatRange DEF Active
<1>7. Settled(left, surrendered') /\ Settled(left, surrendered' \ {next})
  BY <1>1, <1>3, <1>6 DEF Settled, Base, Active
<1> HIDE DEF next, A
<1>8. CASE FinishRound(turn, left, wall)
  BY <1>2, <1>5, <1>7, <1>8, FinishStep
<1>9. CASE DrawForCurrentTurn(next, left, wall, lastDiscardSeat)
  BY <1>2, <1>5, <1>6, <1>7, <1>9, DrawStep
<1>10. CASE /\ \E o \in Seats : "hu" \in rest[o]
            /\ cands' = rest
            /\ robbed' = (pendingGang # NoSeat)
            /\ hand' = left
            /\ pendingDraw' = FALSE /\ currentDraw' = FALSE
            /\ EnterPhase("Claim")
            /\ UNCHANGED <<turn, wall, closed, lastDiscardSeat, pendingGang>>
  <2>1. phase' = "Claim" /\ deadline' = "running"
    BY <1>10 DEF EnterPhase
  <2>2. /\ rest \in [Seats -> SUBSET ClaimActions] /\ rest # NoCands
        /\ rest[s] = {} /\ \A o \in Seats \ {s} : rest[o] = cands[o]
    BY <1>2, <1>10 DEF NoCands
  <2> HIDE DEF rest
  <2>3. TypeOK'
    BY <1>2, <1>3, <1>4, <1>10, <2>1, <2>2
    DEF IInv, TypeOK, SideTypes, Phases, Deadlines
  <2>4. HandShape'
    <3> SUFFICES ASSUME NEW o \in Seats
                 PROVE  \/ hand'[o] = Base(o)' + (IF Holds(o)' THEN 1 ELSE 0)
                        \/ Idle(o)' /\ hand'[o] = Base(o)' + 1
      BY DEF HandShape
    <3>1. Base(o)' = Base(o) /\ ~Holds(o)' /\ Base(o) \in Nat
      <4>1. Base(o)' = Base(o) /\ Base(o) \in Nat
        BY <1>1, <1>2 DEF Base
      <4>a. o # NoSeat
        OBVIOUS
      <4>b. robbed' = (pendingGang # NoSeat) /\ pendingGang' = pendingGang
        BY <1>10
      <4> HIDE DEF NoSeat
      <4>2. pendingGang' = o => robbed'
        BY <4>a, <4>b
      <4> QED
        BY <2>1, <4>1, <4>2 DEF Holds
    <3>2. CASE left[o] = Base(o)
      BY <1>10, <3>1, <3>2
    <3>3. CASE /\ o \in surrendered /\ cands[o] = {}
               /\ o # turn /\ o # lastDiscardSeat
               /\ left[o] = Base(o) + 1
      <4>1. Idle(o)'
        BY <1>1, <1>10, <2>2, <3>3 DEF Idle
      <4> QED
        BY <1>10, <3>1, <3>3, <4>1
    <3> QED
      BY <1>3, <3>2, <3>3
  <2>5. ClaimWindowAnswerable'
    BY <1>1, <1>2, <1>10, <2>1, <2>2 DEF ClaimWindowAnswerable, NoCands
  <2>6. WaitsUnlessGangRobbed'
    BY <2>1 DEF WaitsUnlessGangRobbed
  <2>7. Bookkeeping'
    <3>1. \A o \in Seats : ("pong" \in rest[o] => left[o] >= 2)
                           /\ ("gang" \in rest[o] => left[o] >= 3)
      BY <1>3, <2>2 DEF IInv, Bookkeeping
    <3> QED
      BY <1>2, <1>5, <1>10, <2>1, <3>1 DEF Bookkeeping, SideOK, OpeningStep
  <2> QED
    BY <2>3, <2>4, <2>5, <2>6, <2>7 DEF IInv
<1> QED
  BY <1>8, <1>9, <1>10 DEF HuClaim, left, next, A

(* One more meld takes three tiles off what a seat should hold; with two   *)
(* tiles to spare the hand does not run out.                               *)
LEMMA MeldFacts ==
    ASSUME SideOK, NEW s \in Seats, Base(s) >= 2,
           melds' = [melds EXCEPT ![s] = @ + 1],
           UNCHANGED <<exchangeSubmitted, missingSubmitted, dealt>>
    PROVE  /\ melds' \in [Seats -> Nat]
           /\ OpeningStep' = "done"
           /\ Base(s)' = Base(s) - 3 /\ Base(s)' >= 1 /\ Base(s)' \in Nat
           /\ \A o \in Seats \ {s} : Base(o)' = Base(o) /\ Base(o) >= 1
<1>1. /\ melds \in [Seats -> Nat] /\ dealt \in [Seats -> {10, 13, 16}]
      /\ \A o \in Seats : Base(o) >= 1
  BY DEF SideOK, SideTypes
<1>2. melds' \in [Seats -> Nat] /\ melds'[s] = melds[s] + 1
  BY <1>1
<1>3. \A o \in Seats \ {s} : Base(o)' = Base(o)
  BY <1>1 DEF Base
<1>4. PICK m \in Nat : m = melds[s]
  BY <1>1
<1>5. Base(s)' = Base(s) - 3
  BY <1>1, <1>2, <1>4 DEF Base
<1>6. Base(s) >= 4 /\ Base(s) \in Nat
  <2>1. CASE dealt[s] = 10
    BY <1>4, <2>1 DEF Base
  <2>2. CASE dealt[s] = 13
    BY <1>4, <2>2 DEF Base
  <2>3. CASE dealt[s] = 16
    BY <1>4, <2>3 DEF Base
  <2> QED
    BY <1>1, <2>1, <2>2, <2>3
<1>7. Base(s)' >= 1 /\ Base(s)' \in Nat
  BY <1>5, <1>6
<1> QED
  BY <1>1, <1>2, <1>3, <1>5, <1>7 DEF SideOK, OpeningStep

(* A seat offered a meld claims an ordinary discard, with a settled hand   *)
(* and no draw open.                                                       *)
LEMMA MeldClaimFacts ==
    ASSUME IInv, phase = "Claim", NEW s \in Seats,
           "pong" \in cands[s] \/ "gang" \in cands[s]
    PROVE  /\ SideOK /\ closed = FALSE /\ hand \in [Seats -> Nat] /\ wall \in 0..WallSize
           /\ pendingGang = NoSeat /\ robbed = FALSE /\ currentDraw = FALSE
           /\ hand[s] = Base(s)
           /\ \A o \in Seats : Base(o) \in Nat
           /\ \A o \in Seats \ {s} : \/ hand[o] = Base(o)
                                     \/ o \in surrendered /\ hand[o] = Base(o) + 1
<1>1. /\ SideOK /\ closed = FALSE /\ hand \in [Seats -> Nat] /\ wall \in 0..WallSize
      /\ \A o \in Seats : Base(o) \in Nat
      /\ \A o \in Seats :
            \/ hand[o] = Base(o) + (IF pendingGang = o /\ ~robbed THEN 1 ELSE 0)
            \/ /\ o \in surrendered /\ cands[o] = {}
               /\ o # turn /\ o # lastDiscardSeat
               /\ hand[o] = Base(o) + 1
      /\ pendingGang # NoSeat => \A o \in Seats : cands[o] \subseteq {"hu"}
      /\ pendingGang = NoSeat => robbed = FALSE /\ currentDraw = FALSE
  BY ClaimFacts
<1>2. pendingGang = NoSeat
  BY <1>1
<1>3. \A o \in Seats : \/ hand[o] = Base(o)
                       \/ o \in surrendered /\ cands[o] = {} /\ hand[o] = Base(o) + 1
  BY <1>1, <1>2
<1> QED
  BY <1>1, <1>2, <1>3

(* ApplyPongByPlayer keeps IInv: there is no open draw to rewind. *)
LEMMA PongStep ==
    ASSUME IInv, NEW s \in Seats, Pong(s)
    PROVE  IInv'
<1> USE DEF openingVars, seatVars
<1>1. /\ phase = "Claim" /\ cands[s] # {} /\ "pong" \in cands[s]
      /\ hand' = [RewoundHand EXCEPT ![s] = @ - 2]
      /\ wall' = RewoundWall
      /\ melds' = [melds EXCEPT ![s] = @ + 1]
      /\ pongs' = [pongs EXCEPT ![s] = @ + 1]
      /\ turn' = s /\ lastDiscardSeat' = NoSeat
      /\ cands' = NoCands /\ pendingGang' = NoSeat
      /\ phase' = "Discard" /\ deadline' = "running"
      /\ UNCHANGED <<openingVars, seatVars, openingDrawSeat, step, closed, robbed>>
  BY DEF Pong, IsTopClaimSeat, DropCandidates, EnterPhase
<1>2. /\ pendingDraw' = FALSE /\ currentDraw' = FALSE /\ dealerFirstDiscardOpen' = FALSE
      /\ UNCHANGED <<lastGangFollowUp, lastDiscardAfterGang>>
  BY DEF Pong, CloseOpeningClaimWindow
<1>3. /\ SideOK /\ closed = FALSE /\ hand \in [Seats -> Nat] /\ wall \in 0..WallSize
      /\ pendingGang = NoSeat /\ robbed = FALSE /\ currentDraw = FALSE
      /\ hand[s] = Base(s)
      /\ \A o \in Seats : Base(o) \in Nat
      /\ \A o \in Seats \ {s} : \/ hand[o] = Base(o)
                                \/ o \in surrendered /\ hand[o] = Base(o) + 1
  BY <1>1, MeldClaimFacts
<1>4. hand[s] >= 2
  BY <1>1 DEF IInv, Bookkeeping
<1>5. /\ melds' \in [Seats -> Nat] /\ OpeningStep' = "done"
      /\ Base(s)' = Base(s) - 3 /\ Base(s)' >= 1 /\ Base(s)' \in Nat
      /\ \A o \in Seats \ {s} : Base(o)' = Base(o) /\ Base(o) >= 1
  BY <1>1, <1>3, <1>4, MeldFacts
<1>6. hand' = [hand EXCEPT ![s] = @ - 2] /\ wall' = wall
  BY <1>1, <1>3 DEF RewoundHand, RewoundWall
<1>7. /\ hand' \in [Seats -> Nat] /\ hand'[s] = Base(s)' + 1
      /\ \A o \in Seats \ {s} : hand'[o] = hand[o]
  BY <1>3, <1>4, <1>5, <1>6
<1>8. pongs' \in [Seats -> Nat]
  BY <1>1, <1>3 DEF SideOK, SideTypes
<1>9. SideTypes'
  BY <1>1, <1>2, <1>3, <1>5, <1>8 DEF SideOK, SideTypes
<1>10. TypeOK'
  BY <1>1, <1>2, <1>3, <1>6, <1>7, <1>9
  DEF IInv, TypeOK, SideTypes, Phases, Deadlines, NoCands, ClaimActions
<1>11. HandShape'
  BY <1>1, <1>3, <1>5, <1>7 DEF HandShape, Holds, Idle, NoCands
<1>12. ClaimWindowAnswerable'
  BY <1>1 DEF ClaimWindowAnswerable, NoCands
<1>13. WaitsUnlessGangRobbed'
  BY <1>1 DEF WaitsUnlessGangRobbed
<1>14. Bookkeeping'
  BY <1>1, <1>3, <1>5 DEF Bookkeeping, NoCands
<1> QED
  BY <1>10, <1>11, <1>12, <1>13, <1>14 DEF IInv

(* ApplyGang on a discard keeps IInv. *)
LEMMA ClaimGangStep ==
    ASSUME IInv, NEW s \in Seats, ClaimGang(s)
    PROVE  IInv'
<1> USE DEF openingVars, seatVars
<1>1. /\ phase = "Claim" /\ cands[s] # {} /\ "gang" \in cands[s]
      /\ melds' = [melds EXCEPT ![s] = @ + 1]
      /\ UNCHANGED <<openingVars, pongs, seatVars, openingDrawSeat, step>>
      /\ DrawForCurrentTurn(s, [RewoundHand EXCEPT ![s] = @ - 3], RewoundWall, NoSeat)
  BY DEF ClaimGang, IsTopClaimSeat, FinishGangAction
<1>2. /\ dealerFirstDiscardOpen' = FALSE /\ lastGangFollowUp' = TRUE
      /\ UNCHANGED lastDiscardAfterGang
  BY DEF ClaimGang, CloseOpeningClaimWindow, FinishGangAction
<1>3. /\ SideOK /\ closed = FALSE /\ hand \in [Seats -> Nat] /\ wall \in 0..WallSize
      /\ currentDraw = FALSE
      /\ hand[s] = Base(s)
      /\ \A o \in Seats : Base(o) \in Nat
      /\ \A o \in Seats \ {s} : \/ hand[o] = Base(o)
                                \/ o \in surrendered /\ hand[o] = Base(o) + 1
  BY <1>1, MeldClaimFacts
<1>4. hand[s] >= 3
  BY <1>1 DEF IInv, Bookkeeping
<1>5. /\ melds' \in [Seats -> Nat] /\ OpeningStep' = "done"
      /\ Base(s)' = Base(s) - 3 /\ Base(s)' >= 1 /\ Base(s)' \in Nat
      /\ \A o \in Seats \ {s} : Base(o)' = Base(o) /\ Base(o) >= 1
  <2>1. Base(s) >= 2
    BY <1>3, <1>4
  <2> QED
    BY <1>1, <1>3, <2>1, MeldFacts
<1>6. SideTypes'
  BY <1>1, <1>2, <1>3, <1>5 DEF SideOK, SideTypes
<1>7. SideOK'
  BY <1>5, <1>6 DEF SideOK
<1> DEFINE h == [hand EXCEPT ![s] = @ - 3]
<1>8. /\ h \in [Seats -> Nat] /\ h[s] = Base(s)'
      /\ \A o \in Seats \ {s} : h[o] = hand[o]
  BY <1>3, <1>4, <1>5
<1>9. DrawForCurrentTurn(s, h, wall, NoSeat)
  BY <1>1, <1>3 DEF RewoundHand, RewoundWall
<1> HIDE DEF h
<1>10. Settled(h, surrendered' \ {s})
  BY <1>1, <1>3, <1>5, <1>8 DEF Settled, Base
<1> QED
  BY <1>3, <1>7, <1>9, <1>10, DrawStep

(* ApplyGang of four concealed tiles keeps IInv. *)
LEMMA AnGangStep ==
    ASSUME IInv, NEW s \in Seats, AnGang(s)
    PROVE  IInv'
<1> USE DEF openingVars, seatVars
<1> DEFINE h == [hand EXCEPT ![s] = @ - 4]
<1>1. /\ phase = "Discard" /\ s = turn /\ hand[s] >= 4
      /\ melds' = [melds EXCEPT ![s] = @ + 1]
      /\ UNCHANGED <<openingVars, pongs, seatVars, openingDrawSeat, step>>
      /\ DrawForCurrentTurn(s, h, wall, NoSeat)
  BY DEF AnGang, MaySelfGang, FinishGangAction
<1>2. /\ lastGangFollowUp' = TRUE
      /\ UNCHANGED <<dealerFirstDiscardOpen, lastDiscardAfterGang>>
  BY DEF AnGang, FinishGangAction
<1>3. /\ SideOK /\ closed = FALSE /\ hand \in [Seats -> Nat] /\ wall \in 0..WallSize
      /\ hand[s] = Base(s) + 1
      /\ \A o \in Seats : Base(o) \in Nat
      /\ \A o \in Seats \ {s} : \/ hand[o] = Base(o)
                                \/ o \in surrendered /\ hand[o] = Base(o) + 1
  BY <1>1, TurnFacts
<1>5. /\ melds' \in [Seats -> Nat] /\ OpeningStep' = "done"
      /\ Base(s)' = Base(s) - 3 /\ Base(s)' >= 1 /\ Base(s)' \in Nat
      /\ \A o \in Seats \ {s} : Base(o)' = Base(o) /\ Base(o) >= 1
  <2>1. Base(s) >= 2
    BY <1>1, <1>3
  <2> QED
    BY <1>1, <1>3, <2>1, MeldFacts
<1>6. SideTypes'
  BY <1>1, <1>2, <1>3, <1>5 DEF SideOK, SideTypes
<1>7. SideOK'
  BY <1>5, <1>6 DEF SideOK
<1>8. /\ h \in [Seats -> Nat] /\ h[s] = Base(s)'
      /\ \A o \in Seats \ {s} : h[o] = hand[o]
  BY <1>1, <1>3, <1>5
<1> HIDE DEF h
<1>10. Settled(h, surrendered' \ {s})
  BY <1>1, <1>3, <1>5, <1>8 DEF Settled, Base
<1> QED
  BY <1>1, <1>3, <1>7, <1>10, DrawStep

(* completeBuGang and the supplement draw keep IInv when the gang seat     *)
(* still has the pong and the fourth tile.                                 *)
LEMMA CompleteBuGangStep ==
    ASSUME SideOK, closed = FALSE, hand \in [Seats -> Nat], wall \in 0..WallSize,
           NEW s \in Seats, pongs[s] > 0, hand[s] = Base(s) + 1,
           \A o \in Seats \ {s} : \/ hand[o] = Base(o)
                                  \/ o \in surrendered /\ hand[o] = Base(o) + 1,
           CompleteBuGang(s),
           surrendered' \in SUBSET Seats, surrendered \subseteq surrendered',
           UNCHANGED <<openingVars, melds, hued, openingDrawSeat,
                       dealerFirstDiscardOpen, lastDiscardAfterGang, step>>
    PROVE  IInv'
<1> USE DEF openingVars
<1> DEFINE h == [hand EXCEPT ![s] = @ - 1]
<1>1. /\ pongs' = [pongs EXCEPT ![s] = @ - 1] /\ lastGangFollowUp' = TRUE
      /\ DrawForCurrentTurn(s, h, wall, NoSeat)
  BY DEF CompleteBuGang, FinishGangAction
<1>2. \A o \in Seats : Base(o) \in Nat /\ Base(o)' = Base(o)
  BY DEF SideOK, SideTypes, Base
<1>3. pongs[s] \in Nat /\ pongs[s] - 1 \in Nat
  BY DEF SideOK, SideTypes
<1>4. pongs' \in [Seats -> Nat]
  BY <1>1, <1>3 DEF SideOK, SideTypes
<1>5. SideTypes'
  BY <1>1, <1>4 DEF SideOK, SideTypes
<1>6. SideOK'
  BY <1>5, SideOKNext
<1>7. /\ h \in [Seats -> Nat] /\ h[s] = Base(s)
      /\ \A o \in Seats \ {s} : h[o] = hand[o]
  BY <1>2
<1> HIDE DEF h
<1>8. Settled(h, surrendered' \ {s})
  BY <1>2, <1>7 DEF Settled, Base
<1> QED
  BY <1>1, <1>6, <1>8, DrawStep

(* ApplyGang that adds to a pong keeps IInv, robbed or not. *)
LEMMA BuGangStep ==
    ASSUME IInv, NEW s \in Seats, BuGang(s)
    PROVE  IInv'
<1> USE DEF openingVars, seatVars, drawVars
<1>1. /\ phase = "Discard" /\ s = turn /\ pongs[s] > 0
      /\ UNCHANGED <<openingVars, melds, seatVars, openingDrawSeat,
                     dealerFirstDiscardOpen, lastDiscardAfterGang, step>>
  BY DEF BuGang, MaySelfGang
<1>2. /\ SideOK /\ closed = FALSE /\ robbed = FALSE
      /\ hand \in [Seats -> Nat] /\ turn \in Seats /\ wall \in 0..WallSize
      /\ hand[s] = Base(s) + 1
      /\ \A o \in Seats : Base(o) \in Nat
      /\ \A o \in Seats \ {s} : \/ hand[o] = Base(o)
                                \/ o \in surrendered /\ hand[o] = Base(o) + 1
  BY <1>1, TurnFacts
<1>3. CASE CompleteBuGang(s)
  BY <1>1, <1>2, <1>3, CompleteBuGangStep DEF SideOK, SideTypes
<1>4. ASSUME NEW c \in QiangGangCandidates(s, hand, Active(hued, surrendered)),
             /\ c # NoCands
             /\ cands' = c
             /\ lastDiscardSeat' = s
             /\ pendingGang' = s
             /\ EnterPhase("Claim")
             /\ UNCHANGED <<pongs, lastGangFollowUp, hand, turn, drawVars, robbed, closed>>
      PROVE  IInv'
  <2>1. /\ c \in [Seats -> SUBSET ClaimActions]
        /\ \A o \in Seats : c[o] # {} => o \in Active(hued, surrendered) \ {s}
        /\ \A o \in Seats : c[o] \subseteq {"hu"}
    <3>1. Active(hued, surrendered) \in SUBSET Seats
      BY DEF Active
    <3> QED
      BY <1>2, <1>4, <3>1, QiangGangCandidatesOK
  <2>2. phase' = "Claim" /\ deadline' = "running"
    BY <1>4 DEF EnterPhase
  <2>3. SideTypes'
    BY <1>1, <1>2, <1>4 DEF SideOK, SideTypes
  <2>4. SideOK'
    BY <1>1, <1>2, <2>3, SideOKNext
  <2>5. TypeOK'
    BY <1>2, <1>4, <2>1, <2>2, <2>3 DEF IInv, TypeOK, SideTypes, Phases, Deadlines
  <2>6. HandShape'
    <3> SUFFICES ASSUME NEW o \in Seats
                 PROVE  \/ hand'[o] = Base(o)' + (IF Holds(o)' THEN 1 ELSE 0)
                        \/ Idle(o)' /\ hand'[o] = Base(o)' + 1
      BY DEF HandShape
    <3>1. Base(o)' = Base(o) /\ hand'[o] = hand[o]
      BY <1>1, <1>4 DEF Base
    <3>2. CASE o = s
      <4>1. Holds(o)'
        BY <1>2, <1>4, <3>2 DEF Holds
      <4> QED
        BY <1>2, <3>1, <3>2, <4>1
    <3>3. CASE o # s
      <4>1. ~Holds(o)'
        BY <1>4, <2>2, <3>3 DEF Holds
      <4>2. o \in surrendered => Idle(o)'
        BY <1>1, <1>4, <2>1, <3>3 DEF Idle, Active
      <4> QED
        BY <1>2, <3>1, <3>3, <4>1, <4>2
    <3> QED
      BY <3>2, <3>3
  <2>7. ClaimWindowAnswerable'
    BY <1>1, <1>4, <2>1, <2>2 DEF ClaimWindowAnswerable, Active
  <2>8. WaitsUnlessGangRobbed'
    BY <2>2 DEF WaitsUnlessGangRobbed
  <2>9. Bookkeeping'
    BY <1>1, <1>2, <1>4, <2>1, <2>2, <2>4 DEF Bookkeeping, SideOK
  <2> QED
    BY <2>5, <2>6, <2>7, <2>8, <2>9 DEF IInv
<1> QED
  BY <1>3, <1>4 DEF BuGang

(* ApplyPass on a claim keeps IInv, by the seat itself or because it timed *)
(* out and was surrendered.                                                *)
LEMMA PassClaimStep ==
    ASSUME IInv, NEW s \in Seats, phase = "Claim", cands[s] # {}, PassClaimBy(s),
           surrendered' = surrendered \/ surrendered' = surrendered \cup {s}
    PROVE  IInv'
<1> USE DEF openingVars, drawVars
<1> DEFINE rest == [cands EXCEPT ![s] = {}]
<1>1. UNCHANGED <<openingVars, melds, hued, openingDrawSeat,
                  lastDiscardAfterGang, step>>
  BY DEF PassClaimBy
<1>2. /\ SideOK /\ closed = FALSE
      /\ hand \in [Seats -> Nat] /\ turn \in Seats /\ wall \in 0..WallSize
      /\ cands \in [Seats -> SUBSET ClaimActions]
      /\ lastDiscardSeat \in Seats
      /\ \A o \in Seats : Base(o) \in Nat /\ Base(o) >= 1
      /\ \A o \in Seats : cands[o] # {} => o # lastDiscardSeat /\ o \notin hued
      /\ \A o \in Seats :
            \/ hand[o] = Base(o) + (IF pendingGang = o /\ ~robbed THEN 1 ELSE 0)
            \/ /\ o \in surrendered /\ cands[o] = {}
               /\ o # turn /\ o # lastDiscardSeat
               /\ hand[o] = Base(o) + 1
      /\ pendingGang # NoSeat =>
            /\ pendingGang = lastDiscardSeat /\ pendingGang = turn
            /\ pendingGang \in Seats
            /\ ~robbed => pongs[pendingGang] > 0
            /\ \A o \in Seats : cands[o] \subseteq {"hu"}
      /\ pendingGang = NoSeat => robbed = FALSE /\ currentDraw = FALSE
  BY ClaimFacts
<1>3. surrendered' \in SUBSET Seats /\ surrendered \subseteq surrendered'
  BY <1>2 DEF SideOK, SideTypes
<1>4. /\ rest \in [Seats -> SUBSET ClaimActions]
      /\ rest[s] = {} /\ \A o \in Seats \ {s} : rest[o] = cands[o]
  BY <1>2
<1>a. \A o \in Seats : Base(o)' = Base(o)
  BY <1>1 DEF Base
<1> HIDE DEF rest
<1>5. CASE /\ rest # NoCands
           /\ cands' = rest
           /\ UNCHANGED <<pongs, dealerFirstDiscardOpen, lastGangFollowUp, hand,
                          turn, drawVars, closed, phase, deadline,
                          lastDiscardSeat, pendingGang, robbed>>
  <2>1. SideTypes'
    BY <1>1, <1>2, <1>3, <1>5 DEF SideOK, SideTypes
  <2>2. SideOK'
    BY <1>1, <1>2, <2>1, SideOKNext
  <2>3. TypeOK'
    BY <1>2, <1>4, <1>5, <2>1 DEF IInv, TypeOK, SideTypes
  <2>4. HandShape'
    <3> SUFFICES ASSUME NEW o \in Seats
                 PROVE  \/ hand'[o] = Base(o)' + (IF Holds(o)' THEN 1 ELSE 0)
                        \/ Idle(o)' /\ hand'[o] = Base(o)' + 1
      BY DEF HandShape
    <3>1. /\ Base(o)' = Base(o) /\ hand'[o] = hand[o]
          /\ Holds(o)' <=> (pendingGang = o /\ ~robbed)
      BY <1>5, <1>a DEF Holds
    <3>2. /\ o \in surrendered /\ cands[o] = {} /\ o # turn /\ o # lastDiscardSeat
          => Idle(o)'
      BY <1>3, <1>4, <1>5 DEF Idle
    <3> QED
      BY <1>2, <3>1, <3>2
  <2>5. ClaimWindowAnswerable'
    BY <1>1, <1>2, <1>4, <1>5 DEF ClaimWindowAnswerable
  <2>6. WaitsUnlessGangRobbed'
    BY <1>5 DEF WaitsUnlessGangRobbed, IInv
  <2>7. Bookkeeping'
    <3>1. \A o \in Seats : ("pong" \in rest[o] => hand[o] >= 2)
                           /\ ("gang" \in rest[o] => hand[o] >= 3)
      BY <1>4 DEF IInv, Bookkeeping
    <3> QED
      BY <1>2, <1>5, <2>2, <3>1 DEF Bookkeeping, SideOK
  <2> QED
    BY <2>3, <2>4, <2>5, <2>6, <2>7 DEF IInv
<1>6. CASE /\ pendingGang # NoSeat /\ ~robbed
           /\ UNCHANGED dealerFirstDiscardOpen
           /\ CompleteBuGang(pendingGang)
  <2>1. /\ hand[pendingGang] = Base(pendingGang) + 1
        /\ \A o \in Seats \ {pendingGang} :
              \/ hand[o] = Base(o)
              \/ o \in surrendered /\ hand[o] = Base(o) + 1
    BY <1>2, <1>6
  <2> QED
    BY <1>1, <1>2, <1>3, <1>6, <2>1, CompleteBuGangStep
<1>7. CASE /\ pendingGang # NoSeat /\ robbed
           /\ DropCandidates
           /\ EnterPhase("None")
           /\ UNCHANGED <<pongs, dealerFirstDiscardOpen, lastGangFollowUp, hand,
                          turn, drawVars, closed, lastDiscardSeat, robbed>>
  <2>1. /\ phase' = "None" /\ deadline' = "none"
        /\ cands' = NoCands /\ pendingGang' = NoSeat
    BY <1>7 DEF EnterPhase, DropCandidates
  <2>2. SideTypes'
    BY <1>1, <1>2, <1>3, <1>7 DEF SideOK, SideTypes
  <2>3. SideOK'
    BY <1>1, <1>2, <2>2, SideOKNext
  <2>4. TypeOK'
    BY <1>2, <1>7, <2>1, <2>2
    DEF IInv, TypeOK, SideTypes, Phases, Deadlines, NoCands, ClaimActions
  <2>5. HandShape'
    <3> SUFFICES ASSUME NEW o \in Seats
                 PROVE  \/ hand'[o] = Base(o)' + (IF Holds(o)' THEN 1 ELSE 0)
                        \/ Idle(o)' /\ hand'[o] = Base(o)' + 1
      BY DEF HandShape
    <3>1. Base(o)' = Base(o) /\ hand'[o] = hand[o] /\ ~Holds(o)' /\ Base(o) \in Nat
      BY <1>2, <1>7, <1>a, <2>1 DEF Holds
    <3>2. o \in surrendered /\ o # turn => Idle(o)'
      BY <1>3, <1>7, <2>1 DEF Idle, NoCands
    <3> QED
      BY <1>2, <1>7, <3>1, <3>2
  <2>6. ClaimWindowAnswerable'
    BY <2>1 DEF ClaimWindowAnswerable, NoCands
  <2>7. WaitsUnlessGangRobbed'
    BY <1>7, <2>1 DEF WaitsUnlessGangRobbed
  <2>8. Bookkeeping'
    BY <1>2, <1>7, <2>1, <2>3 DEF Bookkeeping, SideOK, NoCands
  <2> QED
    BY <2>4, <2>5, <2>6, <2>7, <2>8 DEF IInv
<1>8. CASE /\ pendingGang = NoSeat
           /\ CloseOpeningClaimWindow
           /\ UNCHANGED <<pongs, lastGangFollowUp>>
           /\ DrawForCurrentTurn(turn, hand, wall, lastDiscardSeat)
  <2>1. SideTypes'
    BY <1>1, <1>2, <1>3, <1>8 DEF SideOK, SideTypes, CloseOpeningClaimWindow
  <2>2. SideOK'
    BY <1>1, <1>2, <2>1, SideOKNext
  <2>3. \A o \in Seats : \/ hand[o] = Base(o)
                         \/ o \in surrendered \ {turn} /\ hand[o] = Base(o) + 1
    BY <1>2, <1>8
  <2>4. Settled(hand, surrendered' \ {turn})
    BY <1>1, <1>2, <1>3, <2>3 DEF Settled, Base
  <2> QED
    BY <1>2, <1>8, <2>2, <2>4, DrawStep
<1> QED
  BY <1>5, <1>6, <1>7, <1>8 DEF PassClaimBy, rest

(* surrenderTurnAndContinue keeps IInv: the seat that times out keeps the  *)
(* tile it was to discard and is never drawn for again in this step.       *)
LEMMA TimeoutTurnStep ==
    ASSUME IInv, NEW s \in Seats, TimeoutTurn(s)
    PROVE  IInv'
<1> USE DEF openingVars, meldVars
<1> DEFINE A == Active(hued, surrendered')
           next == NextActiveSeat(s, A)
<1>1. /\ s = turn /\ phase \in {"Tsumo", "Discard"}
      /\ surrendered' = surrendered \cup {s}
      /\ UNCHANGED <<openingVars, meldVars, hued, openingDrawSeat, lastGangFollowUp,
                     lastDiscardAfterGang, step>>
      /\ dealerFirstDiscardOpen' = FALSE
  BY DEF TimeoutTurn, CloseOpeningClaimWindow
<1>2. /\ SideOK /\ closed = FALSE
      /\ hand \in [Seats -> Nat] /\ turn \in Seats /\ wall \in 0..WallSize
      /\ \A o \in Seats : Base(o) \in Nat
      /\ hand[s] = Base(s) + (IF phase = "Discard" THEN 1 ELSE 0)
      /\ \A o \in Seats \ {s} : \/ hand[o] = Base(o)
                                \/ o \in surrendered /\ hand[o] = Base(o) + 1
  BY <1>1, TurnFacts
<1>3. SideTypes'
  BY <1>1, <1>2 DEF SideOK, SideTypes
<1>4. SideOK'
  BY <1>1, <1>2, <1>3, SideOKNext
<1>5. \A o \in Seats : \/ hand[o] = Base(o)
                       \/ o \in surrendered' /\ hand[o] = Base(o) + 1
  BY <1>1, <1>2
<1>6. Settled(hand, surrendered')
  BY <1>1, <1>2, <1>5 DEF Settled, Base
<1>7. lastDiscardSeat \in Seats \cup {NoSeat}
  BY DEF IInv, TypeOK
<1>8. CASE FinishRound(turn, hand, wall)
  BY <1>2, <1>4, <1>6, <1>8, FinishStep
<1>9. CASE /\ ~(Cardinality(A) <= 1)
           /\ DrawForCurrentTurn(next, hand, wall, lastDiscardSeat)
  <2>1. A # {}
    <3>1. Cardinality({}) = 0
      BY FS_EmptySet
    <3> QED
      BY <1>9, <3>1
  <2>2. A \in SUBSET Seats /\ \A o \in A : o \notin surrendered'
    BY DEF Active
  <2>3. next \in Seats /\ next \notin surrendered'
    BY <2>1, <2>2, NextActiveSeatRange
  <2> HIDE DEF next
  <2>4. Settled(hand, surrendered' \ {next})
    BY <1>6, <2>3 DEF Settled
  <2> QED
    BY <1>2, <1>4, <1>7, <1>9, <2>3, <2>4, DrawStep
<1> QED
  BY <1>8, <1>9 DEF TimeoutTurn, A, next

(* Actor.doLeave keeps IInv in whatever state it finds the round. *)
LEMMA LeaveStep ==
    ASSUME IInv, NEW s \in Seats, Leave(s)
    PROVE  IInv'
<1> USE DEF openingVars, meldVars, flagVars, windowVars, drawVars
<1>1. /\ surrendered' = surrendered \cup {s}
      /\ UNCHANGED <<openingVars, meldVars, hued, flagVars, windowVars, drawVars,
                     turn, step, hand, closed>>
  BY DEF Leave
<1>2. TypeOK'
  BY <1>1 DEF IInv, TypeOK
<1>3. HandShape'
  BY <1>1 DEF IInv, HandShape, Base, Holds, Idle
<1>4. ClaimWindowAnswerable'
  BY <1>1 DEF IInv, ClaimWindowAnswerable
<1>5. WaitsUnlessGangRobbed'
  BY <1>1 DEF IInv, WaitsUnlessGangRobbed
<1>6. Bookkeeping'
  BY <1>1 DEF IInv, Bookkeeping, Base, OpeningStep
<1> QED
  BY <1>2, <1>3, <1>4, <1>5, <1>6 DEF IInv

(* The passing of a deadline keeps IInv. *)
LEMMA TickStep ==
    ASSUME IInv, Tick
    PROVE  IInv'
<1> USE DEF openingVars, meldVars, seatVars, flagVars, drawVars
<1>1. /\ deadline = "running" /\ deadline' = "expired"
      /\ UNCHANGED <<openingVars, meldVars, seatVars, flagVars, drawVars, turn, step,
                     hand, closed, phase, cands, lastDiscardSeat, pendingGang, robbed>>
  BY DEF Tick
<1>2. TypeOK'
  BY <1>1 DEF IInv, TypeOK, Deadlines
<1>3. HandShape'
  BY <1>1 DEF IInv, HandShape, Base, Holds, Idle
<1>4. ClaimWindowAnswerable'
  BY <1>1 DEF IInv, ClaimWindowAnswerable
<1>5. WaitsUnlessGangRobbed'
  BY <1>1 DEF IInv, WaitsUnlessGangRobbed
<1>6. Bookkeeping'
  BY <1>1 DEF IInv, Bookkeeping, Base, OpeningStep
<1> QED
  BY <1>2, <1>3, <1>4, <1>5, <1>6 DEF IInv

(* A player's operation keeps IInv. *)
LEMMA PlayerStep ==
    ASSUME IInv, NEW s \in Seats, PlayerAction(s)
    PROVE  IInv'
<1> USE DEF openingVars, meldVars, seatVars, flagVars
<1>0. surrendered \in SUBSET Seats
  BY DEF IInv, TypeOK
<1>1. CASE OpeningAction(s)
  <2>1. UNCHANGED <<meldVars, hued, flagVars, step>> /\ surrendered' \in SUBSET Seats
    BY <1>0, <1>1 DEF OpeningAction
  <2>2. CASE ApplyMissingSuit(s)
    BY <2>1, <2>2, MissingSuitStep
  <2>3. ASSUME NEW dir \in 1..3, ApplyExchange(s, dir, TRUE)
        PROVE  IInv'
    BY <2>1, <2>3, ExchangeStep
  <2> QED
    BY <1>1, <2>2, <2>3 DEF OpeningAction
<1>2. CASE Discard(s)
  BY <1>2, DiscardStep
<1>3. CASE DiscardMissingTile(s)
  <2>1. /\ phase = "Tsumo" /\ s = turn
        /\ hand' = HandWithPending(turn) /\ pendingDraw' = FALSE
        /\ EnterPhase("Discard")
        /\ UNCHANGED <<openingVars, meldVars, seatVars, flagVars, turn, step, closed,
                       wall, currentDraw, cands, lastDiscardSeat, pendingGang, robbed>>
    BY <1>3 DEF DiscardMissingTile
  <2>a. SideTypes
    BY <2>1, SideOKNow DEF SideOK
  <2>2. SideTypes'
    BY <2>1, <2>a DEF SideTypes
  <2> QED
    BY <2>1, <2>2, TakePendingStep
<1>4. CASE HuClaim(s)
  BY <1>4, HuClaimStep
<1>5. CASE HuTsumo(s)
  BY <1>5, HuTsumoStep
<1>6. CASE Pong(s)
  BY <1>6, PongStep
<1>7. CASE ClaimGang(s)
  BY <1>7, ClaimGangStep
<1>8. CASE AnGang(s)
  BY <1>8, AnGangStep
<1>9. CASE BuGang(s)
  BY <1>9, BuGangStep
<1>10. CASE PassClaim(s)
  BY <1>10, PassClaimStep DEF PassClaim, IsTopClaimSeat
<1>11. CASE PassTsumo(s)
  <2>1. /\ phase = "Tsumo" /\ s = turn
        /\ hand' = HandWithPending(turn) /\ pendingDraw' = FALSE
        /\ EnterPhase("Discard") /\ step' = step + 1
        /\ UNCHANGED <<openingVars, meldVars, seatVars, flagVars, turn, closed,
                       wall, currentDraw, cands, lastDiscardSeat, pendingGang, robbed>>
    BY <1>11 DEF PassTsumo
  <2>a. SideTypes
    BY <2>1, SideOKNow DEF SideOK
  <2>2. SideTypes'
    BY <2>1, <2>a DEF SideTypes
  <2> QED
    BY <2>1, <2>2, TakePendingStep
<1> QED
  BY <1>1, <1>2, <1>3, <1>4, <1>5, <1>6, <1>7, <1>8, <1>9, <1>10, <1>11
  DEF PlayerAction

(* A timeout keeps IInv. *)
LEMMA TimeoutStep ==
    ASSUME IInv, NEW s \in Seats, Timeout(s)
    PROVE  IInv'
<1> USE DEF meldVars, flagVars
<1>0. surrendered \cup {s} \in SUBSET Seats
  BY DEF IInv, TypeOK
<1>1. CASE TimeoutOpening(s)
  <2>1. UNCHANGED <<meldVars, hued, flagVars, step>> /\ surrendered' \in SUBSET Seats
    BY <1>0, <1>1 DEF TimeoutOpening
  <2>2. CASE ApplyMissingSuit(s)
    BY <2>1, <2>2, MissingSuitStep
  <2>3. CASE ApplyExchange(s, 3, FALSE)
    <3>1. 3 \in 1..3 /\ FALSE \in BOOLEAN
      OBVIOUS
    <3> HIDE DEF Seats
    <3> QED
      BY <2>1, <2>3, <3>1, ExchangeStep, Zenon
  <2> QED
    BY <1>1, <2>2, <2>3 DEF TimeoutOpening
<1>2. CASE TimeoutClaim(s)
  BY <1>2, PassClaimStep DEF TimeoutClaim, IsBestClaimCandidate, IsTopClaimSeat
<1>3. CASE TimeoutTurn(s)
  BY <1>3, TimeoutTurnStep
<1> QED
  BY <1>1, <1>2, <1>3 DEF Timeout

-----------------------------------------------------------------------------
(* Every step of the engine keeps IInv. *)
LEMMA NextKeepsIInv == IInv /\ [Next]_vars => IInv'
<1> SUFFICES ASSUME IInv, [Next]_vars PROVE IInv'
  OBVIOUS
<1>1. ASSUME NEW s \in Seats, PlayerAction(s) PROVE IInv'
  BY <1>1, PlayerStep
<1>2. ASSUME NEW s \in Seats, Timeout(s) PROVE IInv'
  BY <1>2, TimeoutStep
<1>3. ASSUME NEW s \in Seats, Leave(s) PROVE IInv'
  BY <1>3, LeaveStep
<1>4. CASE Tick
  BY <1>4, TickStep
<1>5. CASE UNCHANGED vars
  <2> USE <1>5 DEF vars, openingVars, meldVars, seatVars, flagVars, windowVars,
                   drawVars, IInv
  <2>1. TypeOK'
    BY DEF TypeOK
  <2>2. HandShape'
    BY DEF HandShape, Base, Holds, Idle
  <2>3. ClaimWindowAnswerable' /\ WaitsUnlessGangRobbed'
    BY DEF ClaimWindowAnswerable, WaitsUnlessGangRobbed
  <2>4. Bookkeeping'
    BY DEF Bookkeeping, Base, OpeningStep
  <2> QED
    BY <2>1, <2>2, <2>3, <2>4
<1> QED
  BY <1>1, <1>2, <1>3, <1>4, <1>5 DEF Next

(* IInv holds throughout every round, for every wall, every rule variant   *)
(* and whatever the players do: ApplyDiscard, ApplyHu, ApplyPong,          *)
(* ApplyGang, ApplyPass, ApplyTimeout and a leave in any order.            *)
THEOREM InvariantHolds == Spec => []IInv
BY InitIInv, NextKeepsIInv, PTL DEF Spec

(* Every field of the round keeps its type and the wall never underflows.  *)
THEOREM TypeCorrect == Spec => []TypeOK
BY InvariantHolds, PTL DEF IInv

(* Every hand always has the size that its melds and the step the engine   *)
(* is in (ApplyDiscard, ApplyPong, ApplyGang, a robbed gang) call for.     *)
THEOREM HandsKeepTheirShape == Spec => []HandShape
BY InvariantHolds, PTL DEF IInv

(* A claim window always has a candidate that can answer it, so that       *)
(* bestClaimCandidate never fails in ApplyTimeout.                         *)
THEOREM ClaimWindowsAnswerable == Spec => []ClaimWindowAnswerable
BY InvariantHolds, PTL DEF IInv

(* An open round waits for somebody under a deadline, unless an added gang *)
(* was robbed and the last claim on it refused.                            *)
THEOREM WaitsForSomebody == Spec => []WaitsUnlessGangRobbed
BY InvariantHolds, PTL DEF IInv

-----------------------------------------------------------------------------
(* A claimed meld finds no open draw, so it rewinds nothing. *)
LEMMA NothingToRewind ==
    ASSUME IInv, NEW s \in Seats, Pong(s) \/ ClaimGang(s)
    PROVE  RewoundWall = wall
<1>1. phase = "Claim" /\ ("pong" \in cands[s] \/ "gang" \in cands[s])
  BY DEF Pong, ClaimGang, IsTopClaimSeat
<1> QED
  BY <1>1, MeldClaimFacts DEF RewoundWall

(* rewindInterruptedTurn never puts a tile back: between the draw and any  *)
(* claim some step has always ended the draw.                              *)
THEOREM WallShrinks == Spec => WallNeverGrows
<1>1. IInv /\ [Next]_vars => [wall' <= wall]_vars
  <2> SUFFICES ASSUME IInv, Next PROVE wall' <= wall
    OBVIOUS
  <2> USE DEF drawVars, windowVars, FinishRound, DrawForCurrentTurn
  <2>1. wall \in Nat
    BY DEF IInv, TypeOK
  <2>2. ASSUME NEW s \in Seats, PlayerAction(s) PROVE wall' <= wall
    <3>1. CASE OpeningAction(s)
      BY <2>1, <3>1 DEF OpeningAction, ApplyExchange, ApplyMissingSuit
    <3>2. CASE Discard(s)
      BY <2>1, <3>2 DEF Discard
    <3>3. CASE DiscardMissingTile(s) \/ PassTsumo(s)
      BY <2>1, <3>3 DEF DiscardMissingTile, PassTsumo
    <3>4. CASE HuClaim(s)
      BY <2>1, <3>4 DEF HuClaim
    <3>5. CASE HuTsumo(s)
      BY <2>1, <3>5 DEF HuTsumo
    <3>6. CASE Pong(s)
      <4>1. wall' = RewoundWall
        BY <3>6 DEF Pong
      <4>2. RewoundWall = wall
        BY <3>6, NothingToRewind
      <4> QED
        BY <2>1, <4>1, <4>2
    <3>7. CASE ClaimGang(s)
      <4>1. RewoundWall = wall
        BY <3>7, NothingToRewind
      <4>2. wall' = RewoundWall \/ wall' = RewoundWall - 1
        BY <3>7 DEF ClaimGang, FinishGangAction
      <4> QED
        BY <2>1, <4>1, <4>2
    <3>8. CASE AnGang(s)
      BY <2>1, <3>8 DEF AnGang, FinishGangAction
    <3>9. CASE BuGang(s)
      BY <2>1, <3>9 DEF BuGang, CompleteBuGang, FinishGangAction
    <3>10. CASE PassClaim(s)
      BY <2>1, <3>10
      DEF PassClaim, PassClaimBy, CompleteBuGang, FinishGangAction
    <3> QED
      BY <2>2, <3>1, <3>2, <3>3, <3>4, <3>5, <3>6, <3>7, <3>8, <3>9, <3>10
      DEF PlayerAction
  <2>3. ASSUME NEW s \in Seats, Timeout(s) PROVE wall' <= wall
    <3>1. CASE TimeoutOpening(s)
      BY <2>1, <3>1 DEF TimeoutOpening, ApplyExchange, ApplyMissingSuit
    <3>2. CASE TimeoutClaim(s)
      BY <2>1, <3>2
      DEF TimeoutClaim, PassClaimBy, CompleteBuGang, FinishGangAction
    <3>3. CASE TimeoutTurn(s)
      BY <2>1, <3>3 DEF TimeoutTurn
    <3> QED
      BY <2>3, <3>1, <3>2, <3>3 DEF Timeout
  <2>4. CASE Tick \/ \E s \in Seats : Leave(s)
    BY <2>1, <2>4 DEF Tick, Leave
  <2> QED
    BY <2>2, <2>3, <2>4 DEF Next
<1> QED
  BY <1>1, InvariantHolds, PTL DEF Spec, WallNeverGrows

-----------------------------------------------------------------------------
(* What the other safety properties need beyond IInv: nobody wins before   *)
(* the opening is over.                                                    *)
NobodyWinsEarly == phase = "Opening" => hued = {}

PlayInv ==
    /\ IInv
    /\ ClosedForAReason /\ EarthlyWindow /\ ExchangeSkewedOnlyBySurrender
    /\ NobodyWinsEarly

(* drawForCurrentTurn closes the round for a reason, or draws with fewer   *)
(* than three winners; either way no claim window is open after it.        *)
LEMMA DrawOutcome ==
    ASSUME NEW t, NEW h, NEW w, NEW from, DrawForCurrentTurn(t, h, w, from)
    PROVE  /\ phase' \in {"None", "Tsumo", "Discard"}
           /\ \/ closed' = TRUE /\ ShouldFinishRound(hued', wall')
              \/ closed' = closed /\ ~(Cardinality(hued') >= 3)
BY DEF DrawForCurrentTurn, FinishRound, EnterPhase, ShouldFinishRound

(* A closed round does nothing any more.                                   *)
LEMMA ClosedIsOver ==
    ASSUME IInv, closed, Next
    PROVE  FALSE
<1>1. phase = "None" /\ deadline = "none"
  BY DEF IInv, Bookkeeping, WaitsUnlessGangRobbed
<1>2. ASSUME NEW s \in Seats, PlayerAction(s) PROVE FALSE
  BY <1>1, <1>2
  DEF PlayerAction, OpeningAction, Discard, DiscardMissingTile, HuClaim, HuTsumo, Pong,
      ClaimGang, AnGang, BuGang, MaySelfGang, PassClaim, PassTsumo, IsTopClaimSeat
<1> QED
  BY <1>1, <1>2 DEF Next, Timeout, Leave, Tick

(* A round closes only for a reason, and with the third win at once.       *)
LEMMA ClosedStep ==
    ASSUME IInv, ClosedForAReason, Next
    PROVE  ClosedForAReason'
<1> USE DEF openingVars, meldVars, seatVars, flagVars, windowVars, drawVars
<1>1. ~closed /\ ~(Cardinality(hued) >= 3)
  BY ClosedIsOver DEF ClosedForAReason
<1>2. closed \in BOOLEAN
  BY DEF IInv, TypeOK
<1>3. ASSUME NEW t, NEW h, NEW w, NEW from, DrawForCurrentTurn(t, h, w, from)
      PROVE  ClosedForAReason'
  BY <1>1, <1>2, <1>3, DrawOutcome DEF ClosedForAReason, ShouldFinishRound
<1>4. ASSUME NEW t, NEW h, NEW w, FinishRound(t, h, w), ShouldFinishRound(hued', w)
      PROVE  ClosedForAReason'
  BY <1>4 DEF ClosedForAReason, ShouldFinishRound, FinishRound
<1>5. ASSUME closed' = closed, hued' = hued
      PROVE  ClosedForAReason'
  BY <1>1, <1>5 DEF ClosedForAReason
<1>6. ASSUME NEW s \in Seats, OpeningAction(s) PROVE ClosedForAReason'
  BY <1>3, <1>5, <1>6 DEF OpeningAction, ApplyExchange, ApplyMissingSuit
<1>7. ASSUME NEW s \in Seats, Discard(s) PROVE ClosedForAReason'
  BY <1>3, <1>4, <1>5, <1>7 DEF Discard
<1>8. ASSUME NEW s \in Seats, DiscardMissingTile(s) \/ PassTsumo(s) \/ Pong(s) \/ Leave(s) \/ Tick
      PROVE  ClosedForAReason'
  BY <1>5, <1>8 DEF DiscardMissingTile, PassTsumo, Pong, Leave, Tick
<1>9. ASSUME NEW s \in Seats, HuClaim(s) PROVE ClosedForAReason'
  <2>1. CASE ~ShouldFinishRound(hued', wall) /\ closed' = closed
    BY <1>1, <2>1 DEF ClosedForAReason, ShouldFinishRound
  <2> QED
    BY <1>3, <1>4, <1>9, <2>1 DEF HuClaim
<1>10. ASSUME NEW s \in Seats, HuTsumo(s) PROVE ClosedForAReason'
  BY <1>3, <1>4, <1>10 DEF HuTsumo
<1>11. ASSUME NEW s \in Seats, ClaimGang(s) \/ AnGang(s) \/ BuGang(s)
       PROVE  ClosedForAReason'
  BY <1>3, <1>5, <1>11 DEF ClaimGang, AnGang, BuGang, CompleteBuGang, FinishGangAction
<1>12. ASSUME NEW s \in Seats, PassClaimBy(s) PROVE ClosedForAReason'
  BY <1>3, <1>5, <1>12 DEF PassClaimBy, CompleteBuGang, FinishGangAction
<1>13. ASSUME NEW s \in Seats, TimeoutOpening(s) PROVE ClosedForAReason'
  BY <1>3, <1>5, <1>13 DEF TimeoutOpening, ApplyExchange, ApplyMissingSuit
<1>14. ASSUME NEW s \in Seats, TimeoutTurn(s) PROVE ClosedForAReason'
  <2>1. CASE FinishRound(turn, hand, wall) /\ Cardinality(Active(hued, surrendered')) <= 1
    <3>1. hued' = hued
      BY <1>14 DEF TimeoutTurn
    <3> QED
      BY <1>1, <2>1, <3>1 DEF ClosedForAReason, FinishRound, Active
  <2> QED
    BY <1>3, <1>14, <2>1 DEF TimeoutTurn
<1> QED
  BY <1>6, <1>7, <1>8, <1>9, <1>10, <1>11, <1>12, <1>13, <1>14
  DEF Next, PlayerAction, Timeout, PassClaim, TimeoutClaim

(* The earthly-win flag goes down with the window of the dealer's first    *)
(* discard.                                                                *)
LEMMA EarthlyStep ==
    ASSUME IInv, EarthlyWindow, Next
    PROVE  EarthlyWindow'
<1> USE DEF openingVars, meldVars, seatVars, flagVars, windowVars, drawVars
<1>1. ~closed /\ closed \in BOOLEAN /\ dealerFirstDiscardOpen \in BOOLEAN
  BY ClosedIsOver DEF IInv, TypeOK
<1>2. phase # "Claim" => dealerFirstDiscardOpen = FALSE /\ pendingGang = NoSeat
  BY <1>1 DEF EarthlyWindow, IInv, ClaimWindowAnswerable
<1>3. pendingGang # NoSeat => dealerFirstDiscardOpen = FALSE
  BY <1>1 DEF EarthlyWindow
<1>4. ASSUME dealerFirstDiscardOpen' = FALSE \/ closed' PROVE EarthlyWindow'
  BY <1>4 DEF EarthlyWindow
<1>5. ASSUME UNCHANGED <<dealerFirstDiscardOpen, phase, lastDiscardSeat, pendingGang,
                         openingDrawSeat>>
      PROVE  EarthlyWindow'
  BY <1>1, <1>5 DEF EarthlyWindow
<1>6. ASSUME phase # "Claim" \/ pendingGang # NoSeat, UNCHANGED dealerFirstDiscardOpen
      PROVE  EarthlyWindow'
  BY <1>2, <1>3, <1>4, <1>6
<1>7. ASSUME NEW s \in Seats, Discard(s) PROVE EarthlyWindow'
  <2>1. dealerFirstDiscardOpen = FALSE /\ pendingGang = NoSeat
    BY <1>2, <1>7 DEF Discard
  <2>2. CASE s = Dealer /\ openingDrawSeat = s
    BY <1>4, <1>7, <2>1, <2>2
    DEF Discard, EarthlyWindow, FinishRound, EnterPhase, CloseOpeningClaimWindow
  <2>3. CASE ~(s = Dealer /\ openingDrawSeat = s)
    BY <1>4, <1>7, <2>1, <2>3 DEF Discard, CloseOpeningClaimWindow
  <2> QED
    BY <2>2, <2>3
<1>8. ASSUME NEW s \in Seats, HuClaim(s) \/ Pong(s) \/ ClaimGang(s) \/ TimeoutTurn(s)
      PROVE  EarthlyWindow'
  BY <1>4, <1>8 DEF HuClaim, Pong, ClaimGang, TimeoutTurn, CloseOpeningClaimWindow
<1>9. ASSUME NEW s \in Seats, PassClaimBy(s) PROVE EarthlyWindow'
  BY <1>4, <1>5, <1>6, <1>9 DEF PassClaimBy, CloseOpeningClaimWindow
<1>10. ASSUME NEW s \in Seats,
              \/ DiscardMissingTile(s) \/ PassTsumo(s) \/ HuTsumo(s) \/ AnGang(s) \/ BuGang(s)
       PROVE  EarthlyWindow'
  BY <1>6, <1>10 DEF DiscardMissingTile, PassTsumo, HuTsumo, AnGang, BuGang, MaySelfGang
<1>11. ASSUME NEW s \in Seats, OpeningAction(s) \/ TimeoutOpening(s) PROVE EarthlyWindow'
  <2>1. phase = "Opening"
    BY <1>11
    DEF OpeningAction, TimeoutOpening, ApplyExchange, ApplyMissingSuit, IInv, Bookkeeping
  <2> QED
    BY <1>6, <1>11, <2>1 DEF OpeningAction, TimeoutOpening
<1>12. ASSUME NEW s \in Seats, Leave(s) \/ Tick PROVE EarthlyWindow'
  BY <1>5, <1>12 DEF Leave, Tick
<1> QED
  BY <1>7, <1>8, <1>9, <1>10, <1>11, <1>12
  DEF Next, PlayerAction, Timeout, PassClaim, TimeoutClaim

(* Nobody wins in the opening, and a round does not return to it.          *)
LEMMA NobodyWinsEarlyStep ==
    ASSUME IInv, NobodyWinsEarly, Next
    PROVE  NobodyWinsEarly'
<1> USE DEF openingVars, meldVars, seatVars, flagVars, windowVars, drawVars
<1>1. phase = "Opening" <=> OpeningStep # "done"
  BY DEF IInv, Bookkeeping
<1>2. ASSUME NEW t, NEW h, NEW w, NEW from, DrawForCurrentTurn(t, h, w, from)
      PROVE  NobodyWinsEarly'
  BY <1>2, DrawOutcome DEF NobodyWinsEarly
<1>3. ASSUME NEW t, NEW h, NEW w, FinishRound(t, h, w) PROVE NobodyWinsEarly'
  BY <1>3 DEF NobodyWinsEarly, FinishRound, EnterPhase
<1>4. ASSUME phase' # "Opening" PROVE NobodyWinsEarly'
  BY <1>4 DEF NobodyWinsEarly
<1>5. ASSUME phase' = phase, hued' = hued PROVE NobodyWinsEarly'
  BY <1>5 DEF NobodyWinsEarly
<1>6. ASSUME NEW s \in Seats, OpeningAction(s) \/ TimeoutOpening(s)
      PROVE  NobodyWinsEarly'
  <2>1. phase = "Opening" /\ hued' = hued
    BY <1>1, <1>6 DEF OpeningAction, TimeoutOpening, ApplyExchange, ApplyMissingSuit
  <2> QED
    BY <2>1 DEF NobodyWinsEarly
<1>7. ASSUME NEW s \in Seats, PlayerAction(s), ~OpeningAction(s) PROVE NobodyWinsEarly'
  BY <1>2, <1>3, <1>4, <1>5, <1>7
  DEF PlayerAction, Discard, DiscardMissingTile, HuClaim, HuTsumo, Pong, ClaimGang, AnGang,
      BuGang, CompleteBuGang, FinishGangAction, PassClaim, PassClaimBy, PassTsumo, EnterPhase
<1>8. ASSUME NEW s \in Seats, TimeoutClaim(s) \/ TimeoutTurn(s) PROVE NobodyWinsEarly'
  BY <1>2, <1>3, <1>4, <1>5, <1>8
  DEF TimeoutClaim, TimeoutTurn, PassClaimBy, CompleteBuGang, FinishGangAction, EnterPhase
<1>9. ASSUME NEW s \in Seats, Leave(s) \/ Tick PROVE NobodyWinsEarly'
  BY <1>5, <1>9 DEF Leave, Tick
<1> QED
  BY <1>6, <1>7, <1>8, <1>9 DEF Next, Timeout

(* openingExchangeThreeWithSelections moves tiles round the table: none is *)
(* lost, and a hand is short or over only where a selection was missing.   *)
LEMMA ExchangeMoves ==
    ASSUME NEW O \in SUBSET Seats, NEW d \in 1..3, NEW h,
           hand \in [Seats -> Nat], \A s \in Seats : hand[s] = HandSize,
           h = ExchangeThree(O, d)
    PROVE  /\ h[0] + h[1] + h[2] + h[3] = 4 * HandSize
           /\ \A s \in Seats : /\ h[s] < HandSize => (s + d) % 4 \notin O
                               /\ h[s] > HandSize => s \notin O
<1>1. \A s \in Seats : /\ (s + d) % 4 \in Seats
                       /\ h[s] = 13 - (IF s \in O THEN 3 ELSE 0)
                                    + (IF (s + d) % 4 \in O THEN 3 ELSE 0)
  BY DEF ExchangeThree
<1> DEFINE g(s) == IF s \in O THEN 3 ELSE 0
<1>2. g(0) \in {0, 3} /\ g(1) \in {0, 3} /\ g(2) \in {0, 3} /\ g(3) \in {0, 3}
  OBVIOUS
<1>3. /\ h[0] = 13 - g(0) + g((0 + d) % 4) /\ h[1] = 13 - g(1) + g((1 + d) % 4)
      /\ h[2] = 13 - g(2) + g((2 + d) % 4) /\ h[3] = 13 - g(3) + g((3 + d) % 4)
  BY <1>1
<1>4. h[0] + h[1] + h[2] + h[3] = 52
  <2>1. CASE d = 1
    <3>1. (0 + d) % 4 = 1 /\ (1 + d) % 4 = 2 /\ (2 + d) % 4 = 3 /\ (3 + d) % 4 = 0
      BY <2>1
    <3> HIDE DEF g
    <3> QED
      BY <1>2, <1>3, <3>1
  <2>2. CASE d = 2
    <3>1. (0 + d) % 4 = 2 /\ (1 + d) % 4 = 3 /\ (2 + d) % 4 = 0 /\ (3 + d) % 4 = 1
      BY <2>2
    <3> HIDE DEF g
    <3> QED
      BY <1>2, <1>3, <3>1
  <2>3. CASE d = 3
    <3>1. (0 + d) % 4 = 3 /\ (1 + d) % 4 = 0 /\ (2 + d) % 4 = 1 /\ (3 + d) % 4 = 2
      BY <2>3
    <3> HIDE DEF g
    <3> QED
      BY <1>2, <1>3, <3>1
  <2> QED
    BY <2>1, <2>2, <2>3
<1>5. ASSUME NEW s \in Seats
      PROVE  /\ h[s] < HandSize => (s + d) % 4 \notin O
             /\ h[s] > HandSize => s \notin O
  BY <1>1
<1> QED
  BY <1>4, <1>5

(* applyExchange keeps the ledger of the exchange, whether a seat offers   *)
(* three tiles or is surrendered while it owes them.                       *)
LEMMA ExchangeLedgerStep ==
    ASSUME IInv, ExchangeSkewedOnlyBySurrender, surrendered \subseteq surrendered',
           NEW s \in Seats, NEW dir \in 1..3, NEW offering \in BOOLEAN,
           ApplyExchange(s, dir, offering), offering \/ s \in surrendered'
    PROVE  ExchangeSkewedOnlyBySurrender'
<1> DEFINE O == IF offering THEN offers \cup {s} ELSE offers
           d == IF direction = 0 THEN dir ELSE direction
<1>1. /\ exchangeSubmitted # Seats /\ exchangeSubmitted \subseteq Seats
      /\ offers \subseteq Seats /\ direction \in 0..3 /\ hand \in [Seats -> Nat]
  BY DEF IInv, TypeOK, ApplyExchange, OpeningStep
<1>2. /\ offers \subseteq exchangeSubmitted /\ exchangeSubmitted \ surrendered \subseteq offers
      /\ direction = 0 <=> exchangeSubmitted = {}
  BY <1>1 DEF ExchangeSkewedOnlyBySurrender
<1>3. exchangeSubmitted' = exchangeSubmitted \cup {s} /\ direction' = d
  BY DEF ApplyExchange
<1>4. /\ O \subseteq Seats /\ O \subseteq exchangeSubmitted'
      /\ exchangeSubmitted' \ surrendered' \subseteq O
  BY <1>1, <1>2, <1>3
<1>5. d \in 1..3
  BY <1>1
<1>6. CASE exchangeSubmitted' # Seats
  <2>1. offers' = O
    BY <1>6 DEF ApplyExchange
  <2> QED
    BY <1>3, <1>4, <1>5, <1>6, <2>1 DEF ExchangeSkewedOnlyBySurrender
<1>7. CASE exchangeSubmitted' = Seats
  <2>1. dealt' = ExchangeThree(O, d)
    BY <1>7 DEF ApplyExchange
  <2>2. \A q \in Seats : hand[q] = HandSize
    BY DEF IInv, Bookkeeping, ApplyExchange
  <2>3. \A q \in Seats : q \notin O => q \in surrendered'
    BY <1>4, <1>7
  <2>4. direction' = d
    BY <1>3
  <2>5. \A q \in Seats : (q + d) % 4 \in Seats
    BY <1>5
  <2> HIDE DEF O, d
  <2>6. /\ dealt'[0] + dealt'[1] + dealt'[2] + dealt'[3] = 4 * HandSize
        /\ \A q \in Seats : /\ dealt'[q] < HandSize => (q + d) % 4 \notin O
                            /\ dealt'[q] > HandSize => q \notin O
    BY <1>1, <1>4, <1>5, <2>1, <2>2, ExchangeMoves
  <2> QED
    BY <1>7, <2>3, <2>4, <2>5, <2>6 DEF ExchangeSkewedOnlyBySurrender
<1> QED
  BY <1>6, <1>7

(* No other step touches the exchange, and surrenders are not taken back.  *)
LEMMA ExchangeSkewStep ==
    ASSUME IInv, ExchangeSkewedOnlyBySurrender, Next
    PROVE  ExchangeSkewedOnlyBySurrender'
<1> USE DEF openingVars, meldVars, seatVars, flagVars, windowVars, drawVars
<1>1. ASSUME UNCHANGED <<exchangeSubmitted, offers, direction, dealt>>,
             surrendered \subseteq surrendered'
      PROVE  ExchangeSkewedOnlyBySurrender'
  BY <1>1 DEF ExchangeSkewedOnlyBySurrender
<1>2. ASSUME NEW s \in Seats, OpeningAction(s) PROVE ExchangeSkewedOnlyBySurrender'
  <2>1. CASE ApplyMissingSuit(s)
    BY <1>1, <1>2, <2>1 DEF OpeningAction, ApplyMissingSuit
  <2>2. ASSUME NEW dir \in 1..3, ApplyExchange(s, dir, TRUE)
        PROVE  ExchangeSkewedOnlyBySurrender'
    BY <1>2, <2>2, ExchangeLedgerStep DEF OpeningAction
  <2> QED
    BY <1>2, <2>1, <2>2 DEF OpeningAction
<1>3. ASSUME NEW s \in Seats, TimeoutOpening(s) PROVE ExchangeSkewedOnlyBySurrender'
  <2>1. surrendered' = surrendered \cup {s}
    BY <1>3 DEF TimeoutOpening
  <2>2. CASE ApplyMissingSuit(s)
    BY <1>1, <2>1, <2>2 DEF ApplyMissingSuit
  <2>3. CASE ApplyExchange(s, 3, FALSE)
    <3>1. surrendered \subseteq surrendered' /\ s \in surrendered'
      BY <2>1
    <3>2. 3 \in 1..3 /\ FALSE \in BOOLEAN
      OBVIOUS
    <3> QED
      BY <2>3, <3>1, <3>2, ExchangeLedgerStep, Zenon
  <2> QED
    BY <1>3, <2>2, <2>3 DEF TimeoutOpening
<1>4. ASSUME NEW s \in Seats, PlayerAction(s), ~OpeningAction(s)
      PROVE  ExchangeSkewedOnlyBySurrender'
  BY <1>1, <1>4
  DEF PlayerAction, Discard, DiscardMissingTile, HuClaim, HuTsumo, Pong, ClaimGang, AnGang,
      BuGang, PassClaim, PassClaimBy, PassTsumo
<1>5. ASSUME NEW s \in Seats, TimeoutClaim(s) \/ TimeoutTurn(s) \/ Leave(s) \/ Tick
      PROVE  ExchangeSkewedOnlyBySurrender'
  BY <1>1, <1>5 DEF TimeoutClaim, PassClaimBy, TimeoutTurn, Leave, Tick
<1> QED
  BY <1>2, <1>3, <1>4, <1>5 DEF Next, Timeout

-----------------------------------------------------------------------------
LEMMA InitPlayInv == Init => PlayInv
<1> SUFFICES ASSUME Init PROVE PlayInv
  OBVIOUS
<1>1. IInv
  BY InitIInv
<1>2. hued = {} /\ ~closed /\ ~dealerFirstDiscardOpen
  BY DEF Init
<1>3. Cardinality(hued) = 0
  BY <1>2, FS_EmptySet
<1>4. ClosedForAReason /\ EarthlyWindow /\ NobodyWinsEarly
  BY <1>2, <1>3 DEF ClosedForAReason, EarthlyWindow, NobodyWinsEarly
<1>5. ExchangeSkewedOnlyBySurrender
  BY DEF Init, ExchangeSkewedOnlyBySurrender
<1> QED
  BY <1>1, <1>4, <1>5 DEF PlayInv

(* Every step of the engine keeps PlayInv. *)
LEMMA NextKeepsPlayInv == PlayInv /\ [Next]_vars => PlayInv'
<1> SUFFICES ASSUME PlayInv, [Next]_vars PROVE PlayInv'
  OBVIOUS
<1>1. IInv'
  BY NextKeepsIInv DEF PlayInv
<1>2. CASE Next
  BY <1>1, <1>2, ClosedStep, EarthlyStep, NobodyWinsEarlyStep, ExchangeSkewStep DEF PlayInv
<1>3. CASE UNCHANGED vars
  BY <1>1, <1>3
  DEF PlayInv, ClosedForAReason, EarthlyWindow, NobodyWinsEarly, Active,
      ExchangeSkewedOnlyBySurrender, vars, openingVars, meldVars, seatVars, flagVars,
      windowVars, drawVars
<1> QED
  BY <1>2, <1>3

(* ApplyHu, ApplyDiscard, ApplyTimeout and the draws close a round only    *)
(* with three winners, an empty wall or one seat left, and with the third  *)
(* win at once.                                                            *)
THEOREM ClosesForAReason == Spec => []ClosedForAReason
BY InitPlayInv, NextKeepsPlayInv, PTL DEF Spec, PlayInv

(* No operation leaves the flag of the earthly win up past the window of   *)
(* the dealer's first discard.                                             *)
THEOREM EarthlyFlagFalls == Spec => []EarthlyWindow
BY InitPlayInv, NextKeepsPlayInv, PTL DEF Spec, PlayInv

(* The exchange of three loses no tile, and applyExchange leaves a hand    *)
(* short or over only next to a seat that was surrendered.                 *)
THEOREM ExchangeIsFair == Spec => []ExchangeSkewedOnlyBySurrender
BY InitPlayInv, NextKeepsPlayInv, PTL DEF Spec, PlayInv

-----------------------------------------------------------------------------
(* A seat that claims a meld in a window with a winner is itself one.      *)
LEMMA WinnersFirst ==
    ASSUME IInv, NEW s \in Seats, IsTopClaimSeat(s), NEW o \in Seats, "hu" \in cands[o]
    PROVE  "hu" \in cands[s]
<1>1. cands[s] \in SUBSET ClaimActions /\ cands[o] \in SUBSET ClaimActions
  BY DEF IInv, TypeOK
<1>2. Priority(cands[o]) <= Priority(cands[s])
  BY DEF IsTopClaimSeat
<1>3. Priority(cands[o]) = 3
  BY DEF Priority
<1>4. "hu" \notin cands[s] => Priority(cands[s]) \in {0, 1, 2}
  BY DEF Priority
<1> QED
  BY <1>2, <1>3, <1>4

(* ApplyHu, ApplyPass and the claims leave a window only once every seat   *)
(* that could win on the tile has been served.                             *)
LEMMA WinnersStep ==
    ASSUME IInv, Next, phase = "Claim", phase' # "Claim", ~closed',
           NEW W, W = {s \in Seats : "hu" \in cands[s]}
    PROVE  \/ W = {}
           \/ melds' = melds /\ \A s, o \in W : s = o
           \/ \E s \in W : melds'[s] # melds[s]
<1> USE DEF openingVars, meldVars, seatVars, flagVars, windowVars, drawVars
<1>1. melds \in [Seats -> Nat] /\ cands \in [Seats -> SUBSET ClaimActions]
  BY DEF IInv, TypeOK
<1>2. ASSUME NEW s \in Seats, HuClaim(s) PROVE melds' = melds /\ \A q, o \in W : q = o
  <2>1. melds' = melds
    BY <1>2 DEF HuClaim
  <2>2. \A o \in Seats : "hu" \notin [cands EXCEPT ![s] = {}][o]
    BY <1>2 DEF HuClaim, FinishRound, EnterPhase
  <2>3. \A o \in W : o = s
    BY <1>1, <2>2
  <2> QED
    BY <2>1, <2>3
<1>3. ASSUME NEW s \in Seats, Pong(s) \/ ClaimGang(s)
      PROVE  W = {} \/ \E q \in W : melds'[q] # melds[q]
  <2>1. IsTopClaimSeat(s) /\ melds' = [melds EXCEPT ![s] = @ + 1]
    BY <1>3 DEF Pong, ClaimGang
  <2>2. W = {} \/ s \in W
    BY <2>1, WinnersFirst
  <2>3. melds'[s] # melds[s]
    BY <1>1, <2>1
  <2> QED
    BY <2>2, <2>3
<1>4. ASSUME NEW s \in Seats, PassClaimBy(s) PROVE melds' = melds /\ \A q, o \in W : q = o
  <2>1. melds' = melds
    BY <1>4 DEF PassClaimBy
  <2>2. [cands EXCEPT ![s] = {}] = NoCands
    BY <1>4 DEF PassClaimBy
  <2>3. \A o \in Seats : [cands EXCEPT ![s] = {}][o] = {}
    BY <2>2 DEF NoCands
  <2>4. \A o \in W : o = s
    BY <1>1, <2>3
  <2> QED
    BY <2>1, <2>4
<1>5. ASSUME NEW s \in Seats, OpeningAction(s) \/ TimeoutOpening(s) PROVE FALSE
  BY <1>5
  DEF OpeningAction, TimeoutOpening, ApplyExchange, ApplyMissingSuit, IInv, Bookkeeping
<1>6. ASSUME NEW s \in Seats,
             \/ Discard(s) \/ DiscardMissingTile(s) \/ HuTsumo(s) \/ AnGang(s) \/ BuGang(s)
             \/ PassTsumo(s) \/ TimeoutTurn(s) \/ Leave(s) \/ Tick
      PROVE  FALSE
  BY <1>6
  DEF Discard, DiscardMissingTile, HuTsumo, AnGang, BuGang, MaySelfGang, PassTsumo,
      TimeoutTurn, Leave, Tick
<1> QED
  BY <1>2, <1>3, <1>4, <1>5, <1>6
  DEF Next, PlayerAction, Timeout, PassClaim, TimeoutClaim

(* No claim window ends with a possible winner passed over.                *)
THEOREM WinnersAreServed == Spec => WinnersBeforePlay
<1> DEFINE W == {s \in Seats : "hu" \in cands[s]}
           Served == \/ W = {}
                     \/ melds' = melds /\ \A s, o \in W : s = o
                     \/ \E s \in W : melds'[s] # melds[s]
<1>1. IInv /\ [Next]_vars => [phase = "Claim" /\ phase' # "Claim" /\ ~closed' => Served]_vars
  <2> SUFFICES ASSUME IInv, Next, phase = "Claim", phase' # "Claim", ~closed' PROVE Served
    OBVIOUS
  <2>1. PICK V : V = W
    OBVIOUS
  <2> QED
    BY <2>1, WinnersStep
<1> QED
  BY <1>1, InvariantHolds, PTL DEF Spec, WinnersBeforePlay

-----------------------------------------------------------------------------
(* The round across restarts.                                              *)

(* The saved record determines every field; no default or fallback of the  *)
(* decoding comes into play, because an open window always has candidates. *)
LEMMA RestartStep ==
    ASSUME IInv, Restart
    PROVE  /\ UNCHANGED <<openingVars, meldVars, seatVars, flagVars, drawVars,
                          turn, step, hand, closed, phase, cands,
                          lastDiscardSeat, pendingGang, robbed>>
           /\ deadline' \in IF phase = "None" THEN {"none"} ELSE {"running", "expired"}
<1> USE DEF MarshalRoundPersistJSON, openingVars, meldVars, seatVars, flagVars, drawVars
<1>1. RestoreRoundFromPersistJSON(MarshalRoundPersistJSON) /\ InjectRecoveryRuntime /\ ~closed
  BY DEF Restart
<1>2. UNCHANGED <<turn, step, openingDrawSeat, dealerFirstDiscardOpen, hued, surrendered,
                  lastGangFollowUp, lastDiscardAfterGang, hand, robbed, dealt, melds,
                  pongs, wall, exchangeSubmitted, missingSubmitted, offers, direction>>
  BY <1>1 DEF RestoreRoundFromPersistJSON, BuildRoundStateFromPersist
<1>3. closed \in BOOLEAN /\ closed' = FALSE
  BY <1>1 DEF RestoreRoundFromPersistJSON, BuildRoundStateFromPersist, IInv, TypeOK
<1>4. UNCHANGED <<pendingDraw, currentDraw, lastDiscardSeat>>
  BY <1>1 DEF RestoreRoundFromPersistJSON, DecodeTileFieldsIntoRound
<1>5. phase' = phase /\ pendingGang' = pendingGang
  BY <1>1 DEF RestoreRoundFromPersistJSON, FinalizeRoundInvariants
<1>6. cands' = cands
  <2>1. phase = "Claim" <=> cands # NoCands
    BY DEF IInv, ClaimWindowAnswerable
  <2> QED
    BY <1>1, <2>1 DEF RestoreRoundFromPersistJSON, DecodeClaimCandidatesIntoRound
<1>7. deadline' \in IF phase = "None" THEN {"none"} ELSE {"running", "expired"}
  BY <1>1, <1>5 DEF InjectRecoveryRuntime
<1>8. closed' = closed
  BY <1>1, <1>3
<1> QED
  BY <1>2, <1>4, <1>5, <1>6, <1>7, <1>8

(* A restart keeps IInv. *)
LEMMA RestartKeepsIInv ==
    ASSUME IInv, Restart
    PROVE  IInv'
<1> USE DEF openingVars, meldVars, seatVars, flagVars, drawVars
<1>1. /\ UNCHANGED <<openingVars, meldVars, seatVars, flagVars, drawVars, turn, step,
                     hand, closed, phase, cands, lastDiscardSeat, pendingGang, robbed>>
      /\ deadline' \in IF phase = "None" THEN {"none"} ELSE {"running", "expired"}
  BY RestartStep
<1>2. TypeOK'
  BY <1>1 DEF IInv, TypeOK, Deadlines
<1>3. HandShape'
  BY <1>1 DEF IInv, HandShape, Base, Holds, Idle
<1>4. ClaimWindowAnswerable'
  BY <1>1 DEF IInv, ClaimWindowAnswerable
<1>5. WaitsUnlessGangRobbed'
  BY <1>1 DEF IInv, WaitsUnlessGangRobbed
<1>6. Bookkeeping'
  BY <1>1 DEF IInv, Bookkeeping, Base, OpeningStep
<1> QED
  BY <1>2, <1>3, <1>4, <1>5, <1>6 DEF IInv

-----------------------------------------------------------------------------
(* The invariant of the round holds whatever the players do and however    *)
(* often the node crashes and recovers the round from its save.            *)
THEOREM InvariantSurvivesRestarts == PersistSpec => []IInv
<1>1. IInv /\ [PersistNext]_vars => IInv'
  <2> SUFFICES ASSUME IInv, [PersistNext]_vars PROVE IInv'
    OBVIOUS
  <2>1. CASE Restart
    BY <2>1, RestartKeepsIInv
  <2>2. CASE [Next]_vars
    BY <2>2, NextKeepsIInv
  <2> QED
    BY <2>1, <2>2 DEF PersistNext
<1> QED
  BY <1>1, InitIInv, PTL DEF PersistSpec

(* RestoreRoundFromPersistJSON undoes MarshalRoundPersistJSON: a restart   *)
(* changes nothing of the round but its deadline.                          *)
THEOREM RestoreUndoesMarshal == PersistSpec => RestartKeepsTheRound
<1>1. IInv => [Restart => UNCHANGED <<openingVars, meldVars, seatVars, flagVars,
                                      drawVars, turn, step, hand, closed, phase, cands,
                                      lastDiscardSeat, pendingGang, robbed>>]_vars
  BY RestartStep
<1> QED
  BY <1>1, InvariantSurvivesRestarts, PTL DEF RestartKeepsTheRound

-----------------------------------------------------------------------------
(* Among four seats some priority is highest, and among those that share   *)
(* it some seat is the first after the discarder.                          *)
LEMMA HighestSeat ==
    ASSUME NEW f \in [Seats -> 0..3]
    PROVE  \E s \in Seats : \A o \in Seats : f[o] <= f[s]
<1>1. Seats = {0, 1, 2, 3} /\ f[0] \in 0..3 /\ f[1] \in 0..3 /\ f[2] \in 0..3 /\ f[3] \in 0..3
  BY DEF Seats
<1>2. \E s \in {0, 1, 2, 3} : f[0] <= f[s] /\ f[1] <= f[s] /\ f[2] <= f[s] /\ f[3] <= f[s]
  BY <1>1
<1> QED
  BY <1>1, <1>2

LEMMA NearestSeat ==
    ASSUME NEW T \in SUBSET Seats, T # {}, NEW src \in Seats
    PROVE  \E s \in T : \A o \in T : (s - src) % 4 <= (o - src) % 4
<1> DEFINE f == [s \in Seats |-> IF s \in T THEN 3 - ((s - src) % 4) ELSE 0]
           Near(s) == (s - src) % 4
<1>1. \A s \in Seats : Near(s) \in 0..3
  BY DEF Seats
<1>2. f \in [Seats -> 0..3]
  BY <1>1
<1>3. PICK s \in Seats : \A o \in Seats : f[o] <= f[s]
  <2> HIDE DEF f
  <2> QED BY <1>2, HighestSeat
<1>4. CASE s \in T
  <2>1. \A o \in T : Near(s) <= Near(o)
    BY <1>1, <1>3, <1>4
  <2> QED
    BY <1>4, <2>1
<1>5. CASE s \notin T
  <2>1. \A o \in T : Near(o) = 3
    BY <1>1, <1>3, <1>5
  <2>2. PICK t \in T : TRUE
    OBVIOUS
  <2> HIDE DEF Near
  <2>3. \A o \in T : Near(t) <= Near(o)
    BY <2>1
  <2> QED
    BY <2>3, Zenon DEF Near
<1> QED
  BY <1>4, <1>5

(* An open claim window always has a seat that is asked now.               *)
LEMMA SomebodyIsAsked ==
    ASSUME IInv, phase = "Claim"
    PROVE  \E s \in Seats : IsBestClaimCandidate(s) /\ cands[s] # {}
<1>1. /\ cands \in [Seats -> SUBSET ClaimActions] /\ cands # NoCands
      /\ lastDiscardSeat \in Seats
  BY DEF IInv, TypeOK, ClaimWindowAnswerable
<1> DEFINE f == [s \in Seats |-> Priority(cands[s])]
           Top == {s \in Seats : IsTopClaimSeat(s)}
<1>2. f \in [Seats -> 0..3]
  BY <1>1 DEF Priority
<1>3. \A s \in Seats : cands[s] # {} => Priority(cands[s]) >= 1
  BY <1>1 DEF Priority, ClaimActions
<1>4. PICK q \in Seats : cands[q] # {}
  BY <1>1 DEF NoCands
<1>5. PICK t \in Seats : \A o \in Seats : f[o] <= f[t]
  <2> HIDE DEF f
  <2> QED BY <1>2, HighestSeat
<1>6. cands[t] # {}
  <2>1. Priority({}) = 0
    BY DEF Priority
  <2>2. f[q] >= 1 /\ f[q] <= f[t] /\ f[t] = Priority(cands[t])
    BY <1>3, <1>4, <1>5
  <2> QED
    BY <2>1, <2>2, <1>2
<1>7. t \in Top
  BY <1>5, <1>6 DEF IsTopClaimSeat
<1>8. PICK s \in Top : \A o \in Top : (s - lastDiscardSeat) % 4 <= (o - lastDiscardSeat) % 4
  <2>1. Top \in SUBSET Seats /\ Top # {}
    BY <1>7
  <2> HIDE DEF Top
  <2> QED BY <2>1, <1>1, NearestSeat
<1>9. IsTopClaimSeat(s) /\ cands[s] # {}
  BY <1>8 DEF IsTopClaimSeat
<1> QED
  BY <1>8, <1>9 DEF IsBestClaimCandidate

(* Whatever way the phase update took, the token a client makes of it is   *)
(* the one the engine expects, in every state of every live round.         *)
THEOREM CurrentTokensAreAccepted == PersistSpec => []TokensFit
<1>1. ASSUME IInv, ~closed PROVE TokensFit
  <2> USE DEF ProjectRoundState, SnapshotView, Phase
  <2>1. phase \in Phases
    BY <1>1 DEF IInv, TypeOK
  <2>2. WaitingReasonFromProto(WaitingReasonToProto(phase)) = phase
    BY <2>1 DEF Phases, WaitingReasonFromProto, WaitingReasonToProto
  <2>3. ValidatePhaseToken(PhaseTokenFromProto(PhaseUpdateFromProgress(ProjectRoundState)))
    BY <2>2 DEF ValidatePhaseToken, PhaseTokenFromProto, PhaseUpdateFromProgress
  <2>4. ValidatePhaseToken(PhaseTokenFromProto(DriftPhaseUpdate))
    BY <2>2 DEF ValidatePhaseToken, PhaseTokenFromProto, PhaseUpdateFromProgress,
                DriftPhaseUpdate
  <2>5. WaitingReasonFromRoundView(SnapshotView) = WaitingReasonToProto(phase)
    <3>1. CASE phase = "Claim"
      <4>1. SnapshotWaiting # {}
        <5>1. PICK s \in Seats : IsBestClaimCandidate(s) /\ cands[s] # {}
          BY <1>1, <3>1, SomebodyIsAsked
        <5>2. PICK a \in cands[s] : TRUE
          BY <5>1
        <5>3. s \in ClaimSeat
          BY <5>1 DEF ClaimSeat
        <5>4. <<s, a>> \in UNION {{<<z, b>> : b \in cands[z]} : z \in ClaimSeat}
          BY <5>2, <5>3
        <5> QED
          BY <3>1, <5>4 DEF SnapshotWaiting
      <4>2. WaitingAction = "claim_window"
        BY <3>1, <4>1 DEF WaitingAction
      <4> QED
        BY <1>1, <3>1, <4>2 DEF WaitingReasonFromRoundView, WaitingReasonToProto
    <3>2. CASE phase = "Opening"
      BY <1>1, <3>2 DEF WaitingReasonFromRoundView, WaitingReasonToProto
    <3>3. CASE phase \in {"Tsumo", "Discard", "None"}
      <4>1. WaitingAction = CASE phase = "Tsumo" -> "tsumo_window"
                              [] phase = "Discard" -> "discard"
                              [] OTHER -> ""
        BY <3>3 DEF WaitingAction
      <4> QED
        BY <1>1, <3>3, <4>1 DEF WaitingReasonFromRoundView, WaitingReasonToProto
    <3> QED
      BY <2>1, <3>1, <3>2, <3>3 DEF Phases
  <2>6. ValidatePhaseToken(PhaseTokenFromProto(PhaseUpdateFromRoundView(SnapshotView)))
    BY <2>2, <2>5 DEF ValidatePhaseToken, PhaseTokenFromProto, PhaseUpdateFromRoundView
  <2> QED
    BY <2>3, <2>4, <2>6 DEF TokensFit
<1>2. IInv => TokensFit
  BY <1>1 DEF TokensFit
<1> QED
  BY <1>2, InvariantSurvivesRestarts, PTL

-----------------------------------------------------------------------------
(* A restart brings back everything the other safety properties speak of.  *)
THEOREM PlaySurvivesRestarts == PersistSpec => []PlayInv
<1>1. ASSUME PlayInv, Restart PROVE PlayInv'
  <2>1. IInv'
    BY <1>1, RestartKeepsIInv DEF PlayInv
  <2>2. UNCHANGED <<openingVars, meldVars, seatVars, flagVars, drawVars, turn, step, hand,
                    closed, phase, cands, lastDiscardSeat, pendingGang, robbed>>
    BY <1>1, RestartStep DEF PlayInv
  <2> QED
    BY <1>1, <2>1, <2>2
    DEF PlayInv, ClosedForAReason, EarthlyWindow, NobodyWinsEarly, Active,
        ExchangeSkewedOnlyBySurrender, openingVars, meldVars, seatVars, flagVars, drawVars
<1>2. PlayInv /\ [PersistNext]_vars => PlayInv'
  BY <1>1, NextKeepsPlayInv DEF PersistNext
<1> QED
  BY <1>2, InitPlayInv, PTL DEF PersistSpec

(* Nor does a restart end a claim window, so winners are served across it. *)
THEOREM WinnersServedAcrossRestarts == PersistSpec => WinnersBeforePlay
<1> DEFINE W == {s \in Seats : "hu" \in cands[s]}
           Served == \/ W = {}
                     \/ melds' = melds /\ \A s, o \in W : s = o
                     \/ \E s \in W : melds'[s] # melds[s]
<1>1. IInv /\ [PersistNext]_vars =>
        [phase = "Claim" /\ phase' # "Claim" /\ ~closed' => Served]_vars
  <2> SUFFICES ASSUME IInv, PersistNext, phase = "Claim", phase' # "Claim", ~closed'
               PROVE  Served
    OBVIOUS
  <2>1. CASE Restart
    BY <2>1, RestartStep
  <2>2. CASE Next
    <3>1. PICK V : V = W
      OBVIOUS
    <3> QED
      BY <2>2, <3>1, WinnersStep
  <2> QED
    BY <2>1, <2>2 DEF PersistNext
<1> QED
  BY <1>1, InvariantSurvivesRestarts, PTL DEF PersistSpec, WinnersBeforePlay

-----------------------------------------------------------------------------
(* Among some seats there is a lowest one.                                 *)
LEMMA LowestSeat ==
    ASSUME NEW T \in SUBSET Seats, T # {}
    PROVE  \E s \in T : \A o \in T : s <= o
<1>1. T \subseteq {0, 1, 2, 3}
  BY DEF Seats
<1>2. CASE 0 \in T
  BY <1>1, <1>2
<1>3. CASE 0 \notin T /\ 1 \in T
  BY <1>1, <1>3
<1>4. CASE 0 \notin T /\ 1 \notin T /\ 2 \in T
  BY <1>1, <1>4
<1>5. CASE 0 \notin T /\ 1 \notin T /\ 2 \notin T
  <2>1. T = {3}
    BY <1>1, <1>5
  <2> QED
    BY <2>1
<1> QED
  BY <1>2, <1>3, <1>4, <1>5

(* Whatever snapshotWaiting offers a seat still in play the engine accepts *)
(* from it, and actingSeats names it.                                      *)
LEMMA AskedIsAccepted ==
    ASSUME IInv, NEW q \in SnapshotWaiting, q[1] \notin hued \cup surrendered
    PROVE  Accepts(q[1], q[2]) /\ q[1] \in ActingSeats
<1>1. /\ phase \in Phases /\ turn \in Seats
      /\ cands \in [Seats -> SUBSET ClaimActions]
  BY DEF IInv, TypeOK
<1>2. CASE phase = "Opening"
  <2>1. OpeningStep \in {"exchange", "missing"}
    BY <1>2 DEF IInv, Bookkeeping, OpeningStep
  <2>2. PICK s \in Seats \ (OpeningSubmitted \cup surrendered) : q = <<s, OpeningStep>>
    BY <1>2 DEF SnapshotWaiting
  <2>3. q[1] = s /\ q[2] = OpeningStep
    BY <2>2
  <2>4. s \in ActingSeats
    BY <1>2, <2>2, <2>3 DEF ActingSeats
  <2> QED
    BY <2>1, <2>2, <2>3, <2>4 DEF Accepts
<1>3. CASE phase = "Claim"
  <2>1. SnapshotWaiting = UNION {{<<s, a>> : a \in cands[s]} : s \in ClaimSeat}
    BY <1>3 DEF SnapshotWaiting
  <2>2. PICK s \in ClaimSeat : \E a \in cands[s] : q = <<s, a>>
    BY <2>1
  <2>3. PICK a \in cands[s] : q = <<s, a>>
    BY <2>2
  <2>4. s \in Seats /\ IsTopClaimSeat(s)
    BY <2>2 DEF ClaimSeat, IsBestClaimCandidate
  <2>5. a \in ClaimActions
    BY <1>1, <2>3, <2>4
  <2>6. s \in ActingSeats
    BY <1>3, <2>2 DEF ActingSeats
  <2>7. q[1] = s /\ q[2] = a
    BY <2>3
  <2> QED
    BY <2>3, <2>4, <2>5, <2>6, <2>7 DEF Accepts, ClaimActions
<1>4. CASE phase = "Tsumo"
  <2>1. PICK a \in {"hu", "pass"} : q = <<turn, a>>
    BY <1>4 DEF SnapshotWaiting
  <2>2. q[1] = turn /\ q[2] = a
    BY <2>1
  <2>3. turn \in ActingSeats
    BY <1>4, <2>2 DEF ActingSeats
  <2> QED
    BY <1>4, <2>1, <2>2, <2>3 DEF Accepts
<1>5. CASE phase = "Discard"
  <2>1. q = <<turn, "discard">>
    BY <1>5 DEF SnapshotWaiting
  <2>2. q[1] = turn /\ q[2] = "discard"
    BY <2>1
  <2>3. turn \in ActingSeats
    BY <1>5, <2>2 DEF ActingSeats
  <2> QED
    BY <1>5, <2>2, <2>3 DEF Accepts
<1>6. CASE phase = "None"
  BY <1>6 DEF SnapshotWaiting
<1> QED
  BY <1>1, <1>2, <1>3, <1>4, <1>5, <1>6 DEF Phases

(* As long as the round waits for a seat still in play, such a seat is     *)
(* asked.                                                                  *)
LEMMA SomebodyActingIsAsked ==
    ASSUME IInv, NobodyWinsEarly, ActingSeats \ (hued \cup surrendered) # {}
    PROVE  \E q \in SnapshotWaiting : q[1] \in ActingSeats
<1>1. phase \in Phases /\ turn \in Seats
  BY DEF IInv, TypeOK
<1>2. CASE phase = "Opening"
  <2> DEFINE owing == Seats \ (OpeningSubmitted \cup surrendered)
  <2>1. hued = {} /\ ActingSeats = owing
    BY <1>2 DEF NobodyWinsEarly, ActingSeats
  <2>2. owing \in SUBSET Seats /\ owing # {}
    BY <2>1
  <2>3. PICK s \in owing : \A o \in owing : s <= o
    <3> HIDE DEF owing
    <3> QED BY <2>2, LowestSeat
  <2>4. <<s, OpeningStep>> \in SnapshotWaiting
    BY <1>2, <2>3 DEF SnapshotWaiting
  <2> QED
    BY <2>1, <2>3, <2>4
<1>3. CASE phase = "Claim"
  <2>1. PICK s \in Seats : IsBestClaimCandidate(s) /\ cands[s] # {}
    BY <1>3, SomebodyIsAsked
  <2>2. PICK a \in cands[s] : TRUE
    BY <2>1
  <2>3. s \in ClaimSeat
    BY <2>1 DEF ClaimSeat
  <2>4. <<s, a>> \in UNION {{<<z, b>> : b \in cands[z]} : z \in ClaimSeat}
    BY <2>2, <2>3
  <2>5. <<s, a>> \in SnapshotWaiting
    BY <1>3, <2>4 DEF SnapshotWaiting
  <2>6. s \in ActingSeats
    BY <1>3, <2>3 DEF ActingSeats
  <2> QED
    BY <2>5, <2>6
<1>4. CASE phase \in {"Tsumo", "Discard"}
  <2>1. turn \in ActingSeats /\ turn \notin surrendered
    BY <1>4 DEF ActingSeats
  <2>2. \E a \in {"hu", "discard"} : <<turn, a>> \in SnapshotWaiting
    BY <1>4, <2>1 DEF SnapshotWaiting
  <2> QED
    BY <2>1, <2>2
<1>5. CASE phase = "None"
  BY <1>5 DEF ActingSeats
<1> QED
  BY <1>1, <1>2, <1>3, <1>4, <1>5 DEF Phases

(* The view never misleads a seat that is still in play: ProjectRoundState *)
(* and the engine's own guards agree in every state of every round.        *)
THEOREM ViewAgreesWithEngine == PersistSpec => []ViewMatchesEngine
<1>1. ASSUME PlayInv PROVE ViewMatchesEngine
  BY <1>1, AskedIsAccepted, SomebodyActingIsAsked
  DEF ViewMatchesEngine, ProjectRoundState, PlayInv
<1> QED
  BY <1>1, PlaySurvivesRestarts, PTL
=============================================================================
