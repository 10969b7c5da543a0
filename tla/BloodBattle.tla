----------------------------- MODULE BloodBattle -----------------------------
(***************************************************************************)
(* Points in a Sichuan blood battle (internal/mahjong/sichuan/xuezhandaodi *)
(* and the score keeping of the room engine): what gangs and wins are      *)
(* worth, who pays, and the settlement when the round ends.                *)
(*                                                                         *)
(* A ledger of one round.  A draw that changes a hand is a step; one that  *)
(* is thrown at once is not, so a tile that is claimed or won on is one no *)
(* seat holds.  Of turn order and claim windows, the concern of            *)
(* RoundEngine, only the seat that draws after the last pass is here.      *)
(***************************************************************************)
EXTENDS TableRules, SequencesExt

CONSTANTS
    Deals,      \* records: hands and missing suits by seat, declared or not
    Drawn,      \* bound: the tile indexes drawn, claimed, thrown and won on
    MaxChanges, \* bound: melds taken and drawn tiles kept in the round
    MaxGone     \* bound: seats that surrender once the round is played

Seats == 0..3
Dealer == 0

(* Thirteen tiles each, and no more than four of a kind.                   *)
ASSUME DealsAssumption ==
    /\ MaxChanges \in Nat /\ MaxGone \in Nat /\ Drawn \subseteq 0..SuitedTileCount - 1
    /\ Deals \subseteq [hands : [Seats -> [Playable -> 0..4]], missing : [Seats -> SuitedSuits], declared : BOOLEAN]
    /\ \A d \in Deals : /\ \A s \in Seats : Total(d.hands[s]) = 13
                        /\ \A i \in Playable : Total([s \in Seats |-> d.hands[s][i]]) <= 4

VARIABLES
    hands,      \* concealed tiles by seat, as counts
    meldFacts,  \* meld facts by seat
    ruleState,  \* missing suits and whether they were declared
    events,     \* scoreEvents: who paid whom how much, and for what
    gangs,      \* gangRecords
    wins,       \* winEvents
    pond,       \* tiles discarded from the hands or lost, as counts
    due,        \* turn of an open claim window: who draws after the last pass
    late,       \* history: seats that drew after they had won
    gone,       \* seats that surrendered
    wallEmpty,  \* the last tile was drawn
    result      \* the settlement, NoResult before

ledgerVars == << hands, meldFacts, ruleState, events, gangs, wins, pond, due, late, gone,
                 wallEmpty, result >>

NoResult == << >>

Hued == {wins[k].seat : k \in 1..Len(wins)}

activeSeats == Seats \ (Hued \cup gone)

nextActiveSeat(from) ==
    CHOOSE s \in activeSeats : \A o \in activeSeats : (s - from + 3) % 4 <= (o - from + 3) % 4

seatMelds(s) == meldContexts(meldFacts[s])

(* The tiles a seat shows, and how many of an index.                       *)
shownTiles(s) == FlattenSeq([k \in 1..Len(seatMelds(s)) |-> seatMelds(s)[k].tiles])

shown(tiles, i) == Len(SelectSeq(tiles, LAMBDA t : t = FromIndex(i)))

(* Tiles of an index held, shown, discarded or won on; the tile several    *)
(* seats won on lies on the table once.                                    *)
Used(i) ==
    Total([s \in Seats |-> hands[s][i] + shown(shownTiles(s), i)]) + pond[i]
    + Cardinality({wins[k].step : k \in {j \in 1..Len(wins) : wins[j].tile = FromIndex(i)}})

----------------------------------------------------------------------------
(* The rules.                                                              *)
countsHoldSuit(c, s) == s \in SuitedSuits /\ \E r \in 0..8 : c[s * 9 + r] > 0

isMissingSuitClaim(s, t) == ruleState.declared /\ Suit(t) = ruleState.missing[s]

(* CheckHu of the variant: the winning hand with all melds, if it is one.  *)
XzddCheckHu(s, t) ==
    LET c == [hands[s] EXCEPT ![Index(t)] = @ + 1]
        tiles == shownTiles(s)
    IN  [ok  |-> /\ ~(ruleState.declared /\ countsHoldSuit(c, ruleState.missing[s]))
                 /\ IsWinningWithOpenMelds(c, Len(seatMelds(s))),
         win |-> [i \in Playable |-> c[i] + shown(tiles, i)]]

countOf(c, n) == Cardinality({i \in Playable : c[i] = n})

countGen(c) == countOf(c, 4)

countAnKe(c) == countOf(c, 3)

isQingYiSe(c) == Cardinality({s \in SuitedSuits : countsHoldSuit(c, s)}) = 1

(* Four of a kind count as the pair.                                       *)
isDuiDuiHu(c) ==
    (\A i \in Playable : c[i] \in {0, 2, 3, 4}) /\ countOf(c, 2) + countOf(c, 4) = 1

isJiangDui(c) == isDuiDuiHu(c) /\ \A i \in Playable : c[i] > 0 => (i % 9) + 1 \in {2, 5, 8}

countSeatGang(s) == Cardinality({k \in 1..Len(gangs) : gangs[k].seat = s})

countAnGang(s) == Cardinality({k \in 1..Len(gangs) : gangs[k].seat = s /\ gangs[k].kind = "an"})

Award(b, n) == IF b THEN n ELSE 0

(* The fans of a win, each with its points.  sc: seat, tsumo, opening (the *)
(* dealer's first draw), first (the dealer's first discard), haiDi,        *)
(* gangShangHua, gangShangPao.                                             *)
scoreFans(c, sc) ==
    LET heavenly == sc.seat = Dealer /\ sc.tsumo /\ sc.opening
        earthly == sc.seat # Dealer /\ ~sc.tsumo /\ sc.first
        plain == ~heavenly /\ ~earthly
        long == SevenPairs(c) /\ countGen(c) > 0
        luoHan == countSeatGang(sc.seat) >= 4
        an == IF luoHan THEN 0 ELSE countAnGang(sc.seat)
    IN  [heavenly_hand |-> Award(heavenly, 8),
         earthly_hand |-> Award(earthly, 8),
         long_qi_dui |-> Award(plain /\ long, 8),
         qi_dui |-> Award(plain /\ SevenPairs(c) /\ ~long, 4),
         jiang_dui |-> Award(plain /\ ~SevenPairs(c) /\ isJiangDui(c), 4),
         dui_dui_hu |-> Award(plain /\ ~SevenPairs(c) /\ isDuiDuiHu(c) /\ ~isJiangDui(c), 2),
         ping_hu |-> Award(plain /\ ~SevenPairs(c) /\ ~isDuiDuiHu(c), 1),
         qing_yi_se |-> Award(isQingYiSe(c), 4),
         yi_gen |-> IF long THEN 0 ELSE countGen(c),
         shi_ba_luo_han |-> Award(luoHan, 16),
         gang_shang_kai |-> Award(sc.gangShangHua, 1),
         gang_shang_pao |-> Award(sc.gangShangPao, 1),
         hai_di_lao |-> Award(sc.haiDi /\ sc.tsumo, 1),
         hai_di_pao |-> Award(sc.haiDi /\ ~sc.tsumo, 1),
         qiang_gang_hu |-> Award(\E k \in 1..Len(gangs) : gangs[k].kind = "bu" /\ gangs[k].from >= 0, 1),
         an_ke |-> countAnKe(c),
         an_gang |-> an,
         shuang_an_gang |-> Award(an >= 2, 1)]

TotalFan(fans) == Total(fans)

FanNames(fans) == {f \in DOMAIN fans : fans[f] > 0}

newScoreEvent(reason, from, to, amount, names) ==
    [reason |-> reason, from |-> from, to |-> to, amount |-> amount, winner |-> to, fan |-> amount, names |-> names]

(* A self-drawn win is paid by every other seat still in play, any other   *)
(* by the seat that gave the tile.                                         *)
ScoreWin(c, sc) ==
    LET fans == scoreFans(c, sc)
        reason == IF sc.tsumo THEN "hu_tsumo" ELSE IF sc.gangShangPao THEN "hu_qiang_gang" ELSE "hu_discard"
        payers == SetToSeq((IF sc.tsumo THEN activeSeats ELSE {sc.from} \cap Seats) \ {sc.seat})
    IN  [k \in 1..Len(payers) |-> newScoreEvent(reason, payers[k], sc.seat, TotalFan(fans), FanNames(fans))]

ScoreGang(seat, kind) ==
    LET payers == SetToSeq(activeSeats \ {seat})
    IN  [k \in 1..Len(payers) |->
            [reason |-> IF kind = "an" THEN "gang_an" ELSE IF kind = "bu" THEN "gang_bu" ELSE "gang_ming",
             from |-> payers[k], to |-> seat, amount |-> IF kind = "an" THEN 2 ELSE 1,
             winner |-> SeatInvalid, fan |-> 0, names |-> {}]]

----------------------------------------------------------------------------
(* The settlement.                                                         *)

(* foldScoreEvents, seatBalancesFromScoreEvents: what a seat was paid, and *)
(* what that leaves of it.  Entries are the events, or the penalties.      *)
Received(entries, s) == Total([k \in {j \in DOMAIN entries : entries[j].to = s} |-> entries[k].amount])

Paid(entries, s) == Total([k \in {j \in DOMAIN entries : entries[j].from = s} |-> entries[k].amount])

Balance(entries, s) == Received(entries, s) - Paid(entries, s)

holdsQueSuit(c, s) == \E i \in Playable : c[i] > 0 /\ Suit(FromIndex(i)) = ruleState.missing[s]

isTing(c) == IsTing(c)

(* The seats whose hands, of all hands h, hold the missing suit or wait.   *)
Pigs(h) == {s \in Seats : holdsQueSuit(h[s], s)}

Waiting(h) == {s \in Seats : isTing(h[s])}

(* A penalty, and the event it takes back.                                 *)
Penalty(reason, from, to, amount, of) ==
    [reason |-> reason, from |-> from, to |-> to, amount |-> amount, of |-> of]

(* Refunds that leave concealed gangs out.                                 *)
RefundOpenGangs(reason, includeAnGang) ==
    CASE reason = "gang_ming" -> "refund_ming_gang" [] reason = "gang_bu" -> "refund_bu_gang" [] OTHER -> ""

(* Concealed gangs are returned only in a round nobody won.                *)
refundReason(reason, includeAnGang) ==
    CASE reason = "gang_ming" -> "refund_ming_gang"
      [] reason = "gang_bu" -> "refund_bu_gang"
      [] reason = "gang_an" /\ includeAnGang -> "refund_an_gang"
      [] OTHER -> ""

appendRefundPenalties(s, scoreEvents, skipped, noTingDraw) ==
    {Penalty(refundReason(scoreEvents[k].reason, noTingDraw), s, scoreEvents[k].from, scoreEvents[k].amount, k)
        : k \in {j \in 1..Len(scoreEvents) :
                    /\ skipped \/ noTingDraw
                    /\ scoreEvents[j].to = s /\ scoreEvents[j].from >= 0 /\ scoreEvents[j].amount > 0
                    /\ refundReason(scoreEvents[j].reason, noTingDraw) # ""}}

(* Every seat's turn in the settlement: a pig pays two to each, a seat     *)
(* that neither won nor waits pays one to each winner.  pigs and waiting   *)
(* are the seats that hold their missing suit and that wait.               *)
PenaltiesOf(s, scoreEvents, won, pigs, waiting) ==
    LET skipped == s \in pigs
        ting == s \in waiting
        owes == won # {} /\ s \notin won /\ ~skipped /\ ~ting
    IN  {Penalty("cha_hua_zhu", s, o, 2, 0) : o \in {p \in Seats \ {s} : skipped}}
        \cup {Penalty("cha_da_jiao", s, w, 1, 0) : w \in {p \in won : owes}}
        \cup appendRefundPenalties(s, scoreEvents, skipped, won = {} /\ ~ting)

buildWinnerBreakdowns(scoreEvents, won) ==
    [s \in {t \in won : \E k \in 1..Len(scoreEvents) : scoreEvents[k].winner = t} |->
        LET own == {k \in 1..Len(scoreEvents) : scoreEvents[k].winner = s}
        IN  [fan |-> Max({scoreEvents[k].fan : k \in own}), names |-> UNION {scoreEvents[k].names : k \in own}]]

(* Penalties as entries.                                                   *)
Each(penalties) == [p \in penalties |-> p]

(* A seat's score is read in its own turn, before the seats after it have  *)
(* paid what they owe.                                                     *)
BuildSettlement(scoreEvents, won, pigs, waiting) ==
    LET charged == [s \in Seats |-> PenaltiesOf(s, scoreEvents, won, pigs, waiting)]
        upTo(s) == UNION {charged[o] : o \in 0..s}
    IN  [scores     |-> [s \in Seats |-> Balance(scoreEvents, s) + Balance(Each(upTo(s)), s)],
         skipped    |-> pigs,
         penalties  |-> upTo(3),
         breakdowns |-> buildWinnerBreakdowns(scoreEvents, won)]

----------------------------------------------------------------------------
LedgerInit ==
    /\ \E d \in Deals : hands = d.hands /\ ruleState = [missing |-> d.missing, declared |-> d.declared]
    /\ meldFacts = [s \in Seats |-> <<>>]
    /\ events = <<>> /\ gangs = <<>> /\ wins = <<>>
    /\ pond = NoCounts /\ due = SeatInvalid /\ late = {} /\ gone = {} /\ wallEmpty = FALSE
    /\ result = NoResult

(* Three wins, an empty wall, or nobody left to play against.              *)
shouldFinishRound(won, out, empty) == Cardinality(won) >= 3 \/ empty \/ Cardinality(Seats \ (won \cup out)) <= 1

(* The end of a handler, with what it leaves: a round that is over is      *)
(* settled at once, from the hands h.                                      *)
finishRound(h, scoreEvents, won, out, empty) ==
    result' = IF shouldFinishRound(won, out, empty) THEN BuildSettlement(scoreEvents, won, Pigs(h), Waiting(h)) ELSE NoResult

(* The seats that discard: those in play, and whoever's turn it still is   *)
(* when a claim window ends with a pass.                                   *)
Throwers == activeSeats \cup ({due} \cap Seats)

InPlay(s) == result = NoResult /\ ruleState.declared /\ s \in activeSeats

(* A tile of the index can still be drawn, by a seat that keeps it or      *)
(* discards it at once.                                                    *)
Drawable(i) == Used(i) < 4

appendGangScoreEvents(s, i, kind, from) ==
    /\ events' = events \o ScoreGang(s, kind)
    /\ gangs' = Append(gangs, [seat |-> s, kind |-> kind, tile |-> FromIndex(i), from |-> from])

(* The seat may use the drawn or discarded tile for a meld.                *)
MayMeld(s, i) == InPlay(s) /\ Drawable(i) /\ ~isMissingSuitClaim(s, FromIndex(i))

(* Every tile kept is another one in the pond.                             *)
ChangesLeft == Total([s \in Seats |-> Len(meldFacts[s])]) + Total(pond) < MaxChanges

(* Three in the hand and a discard.                                        *)
MingGang(s, i) ==
    \E from \in Throwers \ {s} :
        /\ hands[s][i] >= 3 /\ MayMeld(s, i) /\ ChangesLeft
        /\ hands' = [hands EXCEPT ![s] = Less(@, i, 3)]
        /\ meldFacts' = [meldFacts EXCEPT ![s] = Append(@, encodeMeldFact("zhi_gang", [k \in 1..4 |-> FromIndex(i)], from))]
        /\ appendGangScoreEvents(s, i, "ming", from)
        /\ due' = SeatInvalid
        /\ UNCHANGED << ruleState, wins, pond, late, gone, wallEmpty, result >>

(* The fourth tile is drawn.                                               *)
SeatAnGang(s, i) ==
    /\ CanAnGang([hands[s] EXCEPT ![i] = @ + 1], FromIndex(i)) /\ MayMeld(s, i) /\ ChangesLeft
    /\ hands' = [hands EXCEPT ![s] = Less(@, i, 3)]
    /\ meldFacts' = [meldFacts EXCEPT ![s] = Append(@, encodeMeldFact("an_gang", [k \in 1..4 |-> FromIndex(i)], SeatInvalid))]
    /\ appendGangScoreEvents(s, i, "an", SeatInvalid)
    /\ due' = SeatInvalid
    /\ UNCHANGED << ruleState, wins, pond, late, gone, wallEmpty, result >>

(* A claim of two in the hand, and the discard that follows it.            *)
SeatPong(s, i) ==
    \E from \in Throwers \ {s}, k \in Drawn \ {i} :
        /\ hands[s][i] >= 2 /\ hands[s][k] >= 1
        /\ MayMeld(s, i) /\ ChangesLeft
        /\ hands' = [hands EXCEPT ![s] = Less(Less(@, i, 2), k, 1)]
        /\ pond' = [pond EXCEPT ![k] = @ + 1]
        /\ meldFacts' = [meldFacts EXCEPT ![s] = Append(@, encodeMeldFact("pong", [j \in 1..3 |-> FromIndex(i)], from))]
        /\ due' = SeatInvalid
        /\ UNCHANGED << ruleState, events, gangs, wins, late, gone, wallEmpty, result >>

(* The drawn fourth tile joins the pong, when nobody robs it.              *)
SeatBuGang(s, i) ==
    LET t == FromIndex(i)
    IN  /\ hasPongMeld(meldFacts[s], t) /\ MayMeld(s, i)
        /\ CanBuGang([hands[s] EXCEPT ![i] = @ + 1], seatMelds(s), t)
        /\ meldFacts' = [meldFacts EXCEPT ![s] = upgradePongToBuGang(@, t)]
        /\ appendGangScoreEvents(s, i, "bu", SeatInvalid)
        /\ due' = SeatInvalid
        /\ UNCHANGED << hands, ruleState, wins, pond, late, gone, wallEmpty, result >>

(* Flags of the score context that may be set only if something holds.     *)
Flag(possible) == IF possible THEN BOOLEAN ELSE {FALSE}

Untouched == events = <<>> /\ \A s \in Seats : meldFacts[s] = <<>>

(* The last points were paid for a gang of one of the seats.               *)
FollowsGang(seats) == events # <<>> /\ Last(events).winner = SeatInvalid /\ Last(events).to \in seats

(* The score contexts of a self-drawn win, with the turn that a claim      *)
(* window left open by the win would end in.                               *)
TsumoContexts(s) ==
    {[seat |-> s, tsumo |-> TRUE, from |-> SeatInvalid, opening |-> o, first |-> FALSE, haiDi |-> h,
      gangShangHua |-> g, gangShangPao |-> FALSE, step |-> Len(wins) + 1, turn |-> SeatInvalid]
        : o \in Flag(Untouched), h \in BOOLEAN, g \in Flag(FollowsGang({s}))}

(* Of a win on a discard.                                                  *)
DiscardContexts(s, from) ==
    {[seat |-> s, tsumo |-> FALSE, from |-> from, opening |-> FALSE, first |-> f, haiDi |-> FALSE,
      gangShangHua |-> FALSE, gangShangPao |-> g, step |-> Len(wins) + 1, turn |-> nextActiveSeat(from)]
        : f \in Flag(Untouched /\ from = Dealer), g \in Flag(FollowsGang({from}))}

(* Of a win on the tile that was to join a pong: the mark of a discard     *)
(* after a gang is that of the last discard before it.                     *)
QiangGangContexts(s, i, from) ==
    {[seat |-> s, tsumo |-> FALSE, from |-> from, opening |-> FALSE, first |-> FALSE, haiDi |-> h,
      gangShangHua |-> FALSE, gangShangPao |-> g, step |-> Len(wins) + 1, turn |-> from]
        : h \in {x \in BOOLEAN : hasPongMeld(meldFacts[from], FromIndex(i))}, g \in Flag(FollowsGang(Seats))}

(* Of a win on the tile another seat has just won on, in the window that   *)
(* was left open for it: the marks of the discard are gone.                *)
AgainContexts(s, i) ==
    {[seat |-> s, tsumo |-> FALSE, from |-> wins[k].from, opening |-> FALSE, first |-> FALSE, haiDi |-> FALSE,
      gangShangHua |-> FALSE, gangShangPao |-> FALSE, step |-> wins[k].step, turn |-> due]
        : k \in {j \in {Len(wins)} \ {0} : /\ due \in Seats /\ wins[j].tile = FromIndex(i)
                                          /\ wins[j].from \in Seats \ {s}}}

(* hasRemainingHuClaimAtPriority: another seat in play wins on the tile.   *)
huClaimLeft(s, from, t) == \E o \in activeSeats \ {s, from} : XzddCheckHu(o, t).ok

(* checkSeatHu, ScoreWin, recordWin and the settlement of ApplyHu.         *)
ApplyHu(s, i, contexts) ==
    LET hu == XzddCheckHu(s, FromIndex(i))
    IN  /\ InPlay(s) /\ hu.ok
        /\ \E sc \in contexts :
              LET fans == scoreFans(hu.win, sc)
              IN  /\ Drawable(i) \/ sc.step <= Len(wins)
                  /\ events' = events \o ScoreWin(hu.win, sc)
                  /\ wins' = Append(wins, [seat |-> s, tile |-> FromIndex(i), from |-> sc.from, step |-> sc.step,
                                           fan |-> TotalFan(fans), names |-> FanNames(fans)])
                  /\ due' = IF huClaimLeft(s, sc.from, FromIndex(i)) THEN sc.turn ELSE SeatInvalid
                  /\ wallEmpty' = sc.haiDi
                  /\ UNCHANGED << hands, meldFacts, ruleState, gangs, pond, late, gone >>
                  /\ finishRound(hands, events \o ScoreWin(hu.win, sc), Hued \cup {s}, gone, sc.haiDi)

Payers(s) == Throwers \ {s}

Tsumo(s, i) == ApplyHu(s, i, TsumoContexts(s))

ClaimContexts(s, i) ==
    AgainContexts(s, i) \cup UNION {DiscardContexts(s, from) : from \in Payers(s)}

HuOnDiscard(s, i) == ApplyHu(s, i, ClaimContexts(s, i))

HuOnGang(s, i) == ApplyHu(s, i, UNION {QiangGangContexts(s, i, from) : from \in activeSeats \ {s}})

(* drawForCurrentTurn: a seat draws, one in play or one that won on the    *)
(* last discard and whose turn had been fixed before                       *)
(* (engine_claim.go:286-288).  The last tile of the wall is drawn in       *)
(* LastDiscard.                                                            *)
DrawsTile(s, i) ==
    /\ result = NoResult /\ ruleState.declared /\ s \in Throwers
    /\ Drawable(i)
    /\ late' = late \cup ({s} \cap Hued)
    /\ due' = SeatInvalid
    /\ UNCHANGED << meldFacts, ruleState, events, gangs, wins, wallEmpty >>

(* Hand.Add.                                                               *)
More(c, i) == [c EXCEPT ![i] = @ + 1]

(* ApplyDiscard: the tile drawn is kept and another one thrown.            *)
KeepDraw(s, i) ==
    /\ DrawsTile(s, i)
    /\ ChangesLeft
    /\ \E k \in Drawn \ {i} :
          /\ hands[s][k] >= 1
          /\ hands' = [hands EXCEPT ![s] = More(Less(@, k, 1), i)]
          /\ pond' = [pond EXCEPT ![k] = @ + 1]
    /\ UNCHANGED << gone, result >>

(* surrenderTurnAndContinue: the seat lets the time to discard pass and    *)
(* keeps fourteen tiles; one it was asked to win with is lost.             *)
TimeOutOnDraw(s, i) ==
    /\ Cardinality(gone) < MaxGone
    /\ DrawsTile(s, i)
    /\ gone' = gone \cup {s}
    /\ \/ LET h == [hands EXCEPT ![s] = More(@, i)]
          IN  hands' = h /\ pond' = pond /\ finishRound(h, events, Hued, gone \cup {s}, FALSE)
       \/ /\ s \in activeSeats /\ XzddCheckHu(s, FromIndex(i)).ok
          /\ pond' = [pond EXCEPT ![i] = @ + 1]
          /\ UNCHANGED hands
          /\ finishRound(hands, events, Hued, gone \cup {s}, FALSE)

ApplySurrender(s) ==
    /\ result = NoResult /\ s \in activeSeats
    /\ ruleState.declared => Cardinality(gone) < MaxGone
    /\ gone' = gone \cup {s}
    /\ UNCHANGED << hands, meldFacts, ruleState, events, gangs, wins, pond, due, late, wallEmpty >>
    /\ finishRound(hands, events, Hued, gone \cup {s}, FALSE)

(* The last tile is drawn and thrown.                                      *)
LastDiscard ==
    /\ result = NoResult /\ ruleState.declared
    /\ due' = SeatInvalid
    /\ wallEmpty' = TRUE
    /\ UNCHANGED << hands, meldFacts, ruleState, events, gangs, wins, pond, late, gone >>
    /\ finishRound(hands, events, Hued, gone, TRUE)

LedgerNext ==
    \/ \E s \in Seats, i \in Drawn :
          \/ MingGang(s, i) \/ SeatAnGang(s, i) \/ SeatPong(s, i) \/ SeatBuGang(s, i)
          \/ Tsumo(s, i) \/ HuOnDiscard(s, i) \/ HuOnGang(s, i)
          \/ KeepDraw(s, i) \/ TimeOutOnDraw(s, i)
    \/ \E s \in Seats : ApplySurrender(s)
    \/ LastDiscard

LedgerSpec == LedgerInit /\ [][LedgerNext]_ledgerVars

----------------------------------------------------------------------------
Settled == result # NoResult

SumOfSeats(b) == b[0] + b[1] + b[2] + b[3]

(* settlement.go: the four scores of a settlement and its penalties add up *)
(* to nothing, as the drill of the settlement page demands.                *)
SettlementZeroSum == Settled => SumOfSeats(result.scores) = 0

(* settlement.go, engine_score.go: points only change hands.  The running  *)
(* scores add up to nothing, and the settled ones miss nothing but what a  *)
(* seat was paid by the seats settled after it.                            *)
OnlyLaterPenaltiesMissing ==
    /\ SumOfSeats([s \in Seats |-> Balance(events, s)]) = 0
    /\ Settled => \A s \in Seats :
          result.scores[s]
            = Balance(events, s) + Balance(Each(result.penalties), s)
              - Received(Each({p \in result.penalties : p.from > s}), s)

(* settlement.go, xzdd.go: whoever won is charged nothing at the end, the  *)
(* winning hand having held no tile of the missing suit, unless it was     *)
(* made to draw again after its win and kept such a tile; and even then it *)
(* is never charged for not waiting.                                       *)
WinnersPayOnlyForLateDraws ==
    Settled => \A p \in result.penalties :
        p.from \in Hued => p.from \in late /\ p.reason # "cha_da_jiao"

(* settlement.go: in a round without a winner every gang is given back: to *)
(* each seat its owner returns what that seat paid.  Seats that wait are   *)
(* spared, but a hand with a gang is never taken for one that waits.       *)
RefundsReturn ==
    Settled /\ Hued = {} =>
        \A s, p \in Seats :
            Total([k \in {j \in 1..Len(events) : events[j].to = s /\ events[j].from = p} |-> events[k].amount])
              = Received(Each({q \in result.penalties : q.from = s /\ q.reason # "cha_hua_zhu"}), p)

(* settlement.go, engine_discard.go: the breakdown shown for a winner is   *)
(* the one of the win that was recorded, whatever the seat was paid for    *)
(* besides, and every winner has one.                                      *)
BreakdownMatchesWin ==
    Settled =>
        /\ DOMAIN result.breakdowns = Hued
        /\ \A k \in 1..Len(wins) :
              result.breakdowns[wins[k].seat] = [fan |-> wins[k].fan, names |-> wins[k].names]

(* Every point of a settlement comes from a win, a gang, a penalty or a    *)
(* refund that is due, and is shown to the players as such                 *)
(* (settlement.go, engine_score.go).                                       *)
PointsAccounted ==
    OnlyLaterPenaltiesMissing /\ WinnersPayOnlyForLateDraws /\ RefundsReturn /\ BreakdownMatchesWin
=============================================================================
