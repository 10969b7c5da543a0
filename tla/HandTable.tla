------------------------------ MODULE HandTable ------------------------------
(***************************************************************************)
(* One seat's tiles as play changes them: the concealed tiles (Hand of     *)
(* internal/mahjong/hand) and the meld facts of the room engine.  The seat *)
(* draws and discards and takes melds, so that the rules are asked about   *)
(* every hand that can come up over the tile kinds of the instance.        *)
(***************************************************************************)
EXTENDS HandAnalysis, Guobiao

CONSTANTS
    Kinds,      \* the tile indexes of the dense box
    RareBoxes,  \* other boxes: functions from tile indexes to copies
    Dealt,      \* the first hand of each box; draws and discards reach the rest
    Named,      \* what the players' chi requests name: sequences of parsed tiles
    MaxMelds    \* bound: melds taken

DenseBox == [i \in Kinds |-> 4]

Boxes == {DenseBox} \cup RareBoxes

ASSUME KindsAssumption ==
    /\ Kinds \subseteq Playable /\ MaxMelds \in 0..4
    /\ \A b \in RareBoxes : DOMAIN b \subseteq Playable /\ b \in [DOMAIN b -> 0..4]

ASSUME NamedAssumption == Named \subseteq Seq(ParsedTiles)

(* Thirteen tiles of the box.                                              *)
ASSUME DealtAssumption ==
    \A b \in Boxes : /\ Dealt[b] \in [Playable -> Nat] /\ Total(Dealt[b]) = 13
                     /\ \A i \in DOMAIN b : Dealt[b][i] <= b[i]
                     /\ \A i \in Playable \ DOMAIN b : Dealt[b][i] = 0

VARIABLES
    box,        \* the tiles that exist: copies of each index
    closed,     \* counts of the concealed tiles
    facts,      \* the encoded meld facts, oldest first
    drawn       \* the seat holds one tile more and has to act

tableVars == << box, closed, facts, drawn >>

Melds == meldContexts(facts)

(* Tiles of an index the seat shows in its melds.                          *)
Shown(i) == countTileInMelds([k \in 1..Len(Melds) |-> Melds[k].tiles], FromIndex(i))

Copies(i) == closed[i] + Shown(i)

(* A tile of the index is still somewhere else.                            *)
Out(i) == Copies(i) < box[i]

(* The seat is 0; a tile is claimed from the seat before it, whose next    *)
(* seat it is, or from the one across.                                     *)
Self == 0
Sources == {2, 3}

Wins(i) == isMCRLegalWin([closed EXCEPT ![i] = @ + 1], Len(Melds))

Offered(i, from) == Candidates(closed, FromIndex(i), Self, from, FALSE, FALSE, Wins(i))

HandInit ==
    /\ box \in Boxes
    /\ closed = Dealt[box]
    /\ facts = <<>>
    /\ drawn = FALSE

Draw(i) ==
    /\ ~drawn /\ Out(i)
    /\ closed' = [closed EXCEPT ![i] = @ + 1]
    /\ drawn' = TRUE
    /\ UNCHANGED << box, facts >>

Discard(i) ==
    /\ drawn /\ closed[i] > 0
    /\ closed' = Less(closed, i, 1)
    /\ drawn' = FALSE
    /\ UNCHANGED << box, facts >>

recordMeldFact(kind, tiles, from) == facts' = Append(facts, encodeMeldFact(kind, tiles, from))

MayClaim(i) == ~drawn /\ Len(facts) < MaxMelds /\ Out(i)

Pong(i) ==
    \E from \in Sources :
        /\ MayClaim(i) /\ "pong" \in Offered(i, from)
        /\ closed' = Less(closed, i, 2)
        /\ recordMeldFact("pong", [k \in 1..3 |-> FromIndex(i)], from)
        /\ drawn' = TRUE
        /\ UNCHANGED box

(* ApplyChi takes the run the player names, or the lowest one, and         *)
(* consumes it without the claimed tile.                                   *)
Chi(i) ==
    \E from \in Sources, named \in Named \cup {<< >>} :
        LET run == resolveChiTiles(closed, FromIndex(i), named)
        IN  /\ MayClaim(i) /\ "chi" \in Offered(i, from) /\ run # NoRun
            /\ closed' = [j \in Playable |->
                             closed[j] - Num(j # i /\ \E k \in 1..3 : Index(run[k]) = j)]
            /\ recordMeldFact("chi", run, from)
            /\ drawn' = TRUE
            /\ UNCHANGED box

ZhiGang(i) ==
    \E from \in Sources :
        /\ MayClaim(i) /\ "gang" \in Offered(i, from)
        /\ closed' = Less(closed, i, 3)
        /\ recordMeldFact("zhi_gang", [k \in 1..4 |-> FromIndex(i)], from)
        /\ UNCHANGED << box, drawn >>

AnGang(i) ==
    /\ drawn /\ Len(facts) < MaxMelds /\ CanAnGang(closed, FromIndex(i))
    /\ closed' = Less(closed, i, 4)
    /\ recordMeldFact("an_gang", [k \in 1..4 |-> FromIndex(i)], SeatInvalid)
    /\ drawn' = FALSE
    /\ UNCHANGED box

BuGang(i) ==
    /\ drawn /\ hasPongMeld(facts, FromIndex(i)) /\ CanBuGang(closed, Melds, FromIndex(i))
    /\ closed' = Less(closed, i, 1)
    /\ facts' = upgradePongToBuGang(facts, FromIndex(i))
    /\ drawn' = FALSE
    /\ UNCHANGED box

HandNext ==
    \E i \in DOMAIN box :
        Draw(i) \/ Discard(i) \/ Pong(i) \/ Chi(i) \/ ZhiGang(i) \/ AnGang(i) \/ BuGang(i)

HandSpec == HandInit /\ [][HandNext]_tableVars

----------------------------------------------------------------------------
(* Reference definitions: the sums of melds and a pair over the dense box, *)
(* built up meld by meld and without any search order.                     *)
Dense == box = DenseBox

Plus(c, d) == [i \in Playable |-> c[i] + d[i]]

Tile(i, n) == [NoCounts EXCEPT ![i] = n]

(* The melds of the dense box with their counts.                           *)
MeldCounts ==
    [m \in {Meld("pung", i, TRUE) : i \in Kinds}
           \cup {Meld("chow", a, TRUE) : a \in {b \in Kinds : {b + 1, b + 2} \subseteq Kinds /\ Suited(b)
                                                        /\ Suit(FromIndex(b)) = Suit(FromIndex(b + 2))}} |->
        LET i == Index(New(m.suit, m.rank))
        IN  IF m.kind = "pung" THEN Tile(i, 3)
            ELSE [NoCounts EXCEPT ![i] = 1, ![i + 1] = 1, ![i + 2] = 1]]

NoMelds == [m \in DOMAIN MeldCounts |-> 0]

WithMeld(s, m) == [melds |-> [s.melds EXCEPT ![m] = @ + 1], sum |-> Plus(MeldCounts[m], s.sum)]

CombosOf[n \in 0..4] ==
    IF n = 0 THEN {[melds |-> NoMelds, sum |-> NoCounts]}
    ELSE {WithMeld(s, m) : m \in DOMAIN MeldCounts, s \in CombosOf[n - 1]}

Combos == [n \in 0..4 |-> CombosOf[n]]

(* Every way to read c as n melds and a pair.                              *)
Readings(c, n) ==
    {[pair |-> r[1], melds |-> r[2].melds]
        : r \in {q \in {i \in Kinds : c[i] >= 2} \X Combos[n] : q[2].sum = Less(c, q[1], 2)}}

MeldSums == [open \in 0..4 |-> {Plus(Tile(i, 2), s.sum) : i \in Kinds, s \in Combos[4 - open]}]

(* The standard wins: there are four tiles of a kind (hu.go).              *)
Standards == [open \in 0..4 |-> {w \in MeldSums[open] : \A i \in Kinds : w[i] <= 4}]

(* The tiles of a hand, lowest first.                                      *)
TilesOf(c) ==
    FlattenSeq([k \in 1..PlayableTileCount |-> [n \in 1..c[k - 1] |-> FromIndex(k - 1)]])

(* A table that shows nothing, and one on which the lowest kind is dead.   *)
PublicOf(discards) ==
    [discards |-> [s \in 0..3 |-> IF s = 1 THEN discards ELSE <<>>],
     melds |-> [s \in 0..3 |-> <<>>], drawn |-> [s \in 0..3 |-> <<>>],
     que |-> [s \in 0..3 |-> 2], self |-> 0]

Publics ==
    {PublicOf(<<>>), PublicOf([k \in 1..4 - closed[Min(Kinds)] |-> FromIndex(Min(Kinds))])}

(* The concealed tiles and the melds stay thirteen tiles, one more for     *)
(* each gang and one more while the seat has to act, and never more than   *)
(* four of a kind: claiming, upgrading a pong and reading the facts back   *)
(* (meld_fact.go) lose and invent no tile, and keep the claimed seat.      *)
HandWhole ==
    /\ DOMAIN box # {} => Total(closed) + Total([k \in 1..Len(Melds) |-> Len(Melds[k].tiles)])
         = 13 + Cardinality({k \in 1..Len(Melds) : Len(Melds[k].tiles) = 4}) + (IF drawn THEN 1 ELSE 0)
    /\ \A i \in DOMAIN box : Copies(i) \in 0..4
    /\ \A k \in 1..Len(facts) :
          LET m == parseMeldFact(facts[k])
          IN  encodeMeldFact(m.kind, m.tiles, m.from) = facts[k] /\ (m.from = SeatInvalid <=> m.concealed)

(* hu.go: the search from the lowest tile up finds a win exactly when the  *)
(* concealed tiles are a sum of melds and a pair, or seven pairs without   *)
(* melds, whatever order the melds would have to be taken in.              *)
DecomposerExact ==
    Dense /\ drawn => (IsWinningWithOpenMelds(closed, Len(facts))
                <=> \/ closed \in Standards[Len(facts)]
                    \/ facts = <<>> /\ \A i \in Playable : closed[i] % 2 = 0)

(* One less than the tiles the nearest of some hands has and closed has not*)
Distance(wins) ==
    Min({MapThenSumSet(LAMBDA i : IF w[i] > closed[i] THEN w[i] - closed[i] ELSE 0, Kinds) : w \in wins}) - 1

(* analysis.go: for a hand of thirteen tiles standardShanten is the        *)
(* distance to the nearest sum of melds and a pair of the box's kinds.     *)
(* That is the distance to the nearest win of these kinds or, in a hand    *)
(* that holds all four tiles of one and counts on a fifth, one less.       *)
ShantenIsDistance ==
    Dense /\ ~drawn /\ facts = <<>> =>
        /\ standardShanten(closed) = Distance(MeldSums[0])
        /\ \/ standardShanten(closed) = Distance(Standards[0])
           \/ /\ standardShanten(closed) = Distance(Standards[0]) - 1
              /\ \E i \in Kinds : closed[i] = 4

(* analysis.go: when some discard outside the missing suit leaves a hand   *)
(* that waits, in standard form, for a tile still out, the advised discard *)
(* leaves such a wait too, unless it clears the missing suit.              *)
AdviceKeepsTheWait ==
    Dense /\ drawn /\ facts = <<>> =>
        \A pub \in Publics :
            LET best == BestDiscard(TilesOf(closed), 2, pub)
                Waits(i) == \E t \in TingTiles(Less(closed, i, 1)) :
                               /\ StandardForm([Less(closed, i, 1) EXCEPT ![Index(t)] = @ + 1])
                               /\ RemainingByPublic(t, Less(closed, i, 1), pub) > 0
            IN  best.kinds > 0 \/ best.que \/ ~\E i \in Kinds : closed[i] > 0 /\ Waits(i)

(* analysis.go: the exchange advised for thirteen suited tiles, with the   *)
(* missing suit advised for them, is three held tiles of one suit, also    *)
(* when that suit has fewer than three.                                    *)
ExchangeAdviceLegal ==
    DOMAIN box # {} /\ ~drawn /\ facts = <<>> /\ (\A i \in Honors : closed[i] = 0) =>
        LET give == BestExchangeThree(TilesOf(closed), BestQueSuit(TilesOf(closed)))
        IN  /\ Len(give) = 3
            /\ Suit(give[1]) \in SuitedSuits
            /\ \A k \in 1..3 : /\ Suit(give[k]) = Suit(give[1])
                               /\ countTile(give, give[k]) <= closed[Index(give[k])]

(* rules.go and engine_claim.go: a chi is offered for a tile of the        *)
(* previous seat exactly when the engine finds a run for a player who      *)
(* names none; whatever run a player names and the engine takes, a chi was *)
(* offered for the tile, and the run holds the tile, stays in one suit and *)
(* its other tiles are in the hand.                                        *)
OffersCanBeTaken ==
    ~drawn => \A i \in DOMAIN box, from \in 1..3 :
        LET t == FromIndex(i)
            offered == Candidates(closed, t, Self, from, FALSE, FALSE, FALSE)
        IN  /\ "chi" \in offered <=> from = 3 /\ IsSuited(t) /\ resolveChiTiles(closed, t, << >>) # NoRun
            /\ IsSuited(t) => \A named \in Named \cup {<< >>} :
                  LET run == resolveChiTiles(closed, t, named)
                  IN  run # NoRun =>
                        /\ from = 3 => "chi" \in offered
                        /\ isChiSequence(run)
                        /\ \E k \in 1..3 : run[k] = t
                        /\ \A k \in 1..3 : run[k] # t => closed[Index(run[k])] > 0

(* The knitted sets: each suit gives one of the residues 1-4-7, 2-5-8 and  *)
(* 3-6-9, no two suits the same.                                           *)
KnittedSets ==
    {{i \in 0..26 : (i % 9) % 3 = r[i \div 9]}
        : r \in {q \in [SuitedSuits -> 0..2] : \A a, b \in SuitedSuits : q[a] = q[b] => a = b}}

(* mcr_utils.go and rule.go: besides the wins of hu.go a hand is one       *)
(* exactly when it is fourteen singles of the honors and one knitted set,  *)
(* or the thirteen orphans with one of them twice.                         *)
SpecialHandsExact ==
    drawn /\ facts = <<>> =>
        (isMCRLegalWin(closed, 0)
           <=> \/ IsWinning(closed)
               \/ /\ \A i \in Playable : closed[i] <= 1
                  /\ \E k \in KnittedSets : Held(closed) \subseteq Honors \cup k
               \/ /\ Held(closed) = {i \in Playable : ~Suited(i) \/ rankOfIndex(i) \in {1, 9}}
                  /\ \E i \in Playable : closed[i] = 2)

(* The melds of a reading as a bag.                                        *)
BagOf(melds) == [m \in DOMAIN MeldCounts |-> Cardinality({k \in 1..Len(melds) : melds[k] = m})]

(* mcr_utils.go: the enumeration finds every reading of the concealed      *)
(* tiles and nothing else, so no fan is lost to the order of the search.   *)
ReadingsExact ==
    Dense /\ drawn =>
        {[pair |-> d.pair, melds |-> BagOf(d.melds)] : d \in enumerateMCRDecomps(closed, <<>>)}
          = IF facts = <<>> THEN Readings(closed, 4) ELSE {}

(* appendGangEntries records each gang of the seat beside its meld.        *)
GangKind == [zhi_gang |-> "ming", bu_gang |-> "bu", an_gang |-> "an"]

Gangs(melds) == SelectSeq(melds, LAMBDA m : m.kind \in DOMAIN GangKind)

gangRecords(melds) ==
    [k \in 1..Len(Gangs(melds)) |-> [seat |-> Self, kind |-> GangKind[Gangs(melds)[k].kind]]]

(* The win the seat would declare on a tile it drew itself, for which the  *)
(* lowest and the highest held one stand.                                  *)
LastTiles == {FromIndex(Min(Held(closed))), FromIndex(Max(Held(closed)))}

Scored(c, melds, t) ==
    newMCRContext(CheckHu(c, melds), c, melds,
                  [seat |-> Self, tile |-> t, tsumo |-> TRUE, haiDi |-> FALSE, gangShangHua |-> FALSE,
                   gangShangPao |-> FALSE, wall |-> 1, step |-> 1, gangs |-> gangRecords(melds), flowers |-> 0])

(* mcr_scoring.go: a fan left out for another is paid for: some fan that   *)
(* excludes it is itself counted and worth at least as much.               *)
SuppressionAccounted ==
    drawn /\ isMCRLegalWin(closed, Len(Melds)) =>
        \A t \in LastTiles :
        \A all \in {detectMCRFans(Scored(closed, Melds, t))} :
        \A kept \in {suppressMCRFans(all)}, f \in FanIds :
            all[f] > 0 /\ kept[f] = 0 =>
                \E g \in DOMAIN Excluded :
                    kept[g] > 0 /\ f \in Excluded[g] /\ Points[g] >= Points[f]

(* The fans that count gangs, or four tiles of a kind.                     *)
KongFans == {"tile_hog", "concealed_kong", "melded_kong", "two_concealed_kongs", "two_melded_kongs",
             "three_kongs", "four_kongs"}

(* mcr_matchers.go: a self-drawn win with melds shows no fan more often    *)
(* than the same tiles all concealed, three of them for a gang: nothing is *)
(* counted twice for being both a meld and a part of the hand, except a    *)
(* gang.  That is two kongs, one as a meld and one as a record of the      *)
(* round, concealed or not as it was made, and four tiles of a kind.       *)
ExposingAddsNoFan ==
    drawn /\ facts # <<>> /\ isMCRLegalWin(closed, Len(Melds)) =>
        \A gangs \in {Gangs(Melds)} :
        \A whole \in {[i \in Playable |-> CheckHu(closed, Melds).win[i]
                         - CountIf(1..Len(gangs), LAMBDA k : gangs[k].tiles[1] = FromIndex(i))]} :
        \A t \in LastTiles :
        \A open \in {detectMCRFans(Scored(closed, Melds, t))}, hidden \in {detectMCRFans(Scored(whole, <<>>, t))} :
            /\ \A f \in FanIds \ KongFans : open[f] <= hidden[f]
            /\ open["concealed_kong"] = 2 * CountIf(1..Len(gangs), LAMBDA k : gangs[k].concealed)
            /\ open["melded_kong"] = 2 * CountIf(1..Len(gangs), LAMBDA k : ~gangs[k].concealed)
            /\ open["tile_hog"] = hidden["tile_hog"] + Len(gangs)

(* scoring.go and rule.go: a win is paid its fan, at least eight points,   *)
(* by each seat that owes it and not by seat 2, which left the round; the  *)
(* winner gets what the others lose, and the settlement names the fan      *)
(* itself, not what it added up to; under eight points nothing is paid or  *)
(* named.                                                                  *)
MCRFanPaidOnce ==
    drawn /\ isMCRLegalWin(closed, Len(Melds)) =>
        LET self == Scored(closed, Melds, FromIndex(Min(Held(closed))))
        IN  \A claimed \in BOOLEAN :
            \A w \in {mcrScoreWin([self EXCEPT !.sc.tsumo = ~claimed], {0, 1, 3}, 3)} :
                LET owing == IF claimed THEN {3} ELSE {1, 3}
                    r == mcrBuildSettlement(w.events, IF w.ok THEN {Self} ELSE {})
                IN  /\ w.ok <=> w.fan >= 8
                    /\ \A s \in 1..3 : r.SeatScores[s] = IF s \in owing THEN 0 - w.fan ELSE 0
                    /\ r.SeatScores[Self] = w.fan * Cardinality(owing)
                    /\ r.PerWinnerBreakdown = [s \in (IF w.ok THEN {Self} ELSE {}) |-> w.fan]

-----------------------------------------------------------------------------
(* Playing a hand neither loses nor invents a tile, and what a claim       *)
(* offers can be taken (meld_fact.go, rules.go, engine_claim.go).          *)
HandKept == HandWhole /\ OffersCanBeTaken

(* Wins and readings are found exactly, standard and special ones, whatever*)
(* order the searches take (hu.go, mcr_utils.go, rule.go).                 *)
HandsRead == DecomposerExact /\ ReadingsExact /\ SpecialHandsExact

(* The distance to a win is the real one, but for a fifth tile it may      *)
(* count on, and the advice built on it keeps a wait and names tiles that  *)
(* may be given (analysis.go).                                             *)
AdviceSound == ShantenIsDistance /\ AdviceKeepsTheWait /\ ExchangeAdviceLegal

(* Every fan of a competition win is accounted for: left out only for a    *)
(* dearer one, shown no more often for a meld than for its tiles in the    *)
(* hand, gangs alone excepted, and paid once by each seat that owes it     *)
(* (mcr_scoring.go, mcr_matchers.go, scoring.go).                          *)
FansAccounted == SuppressionAccounted /\ ExposingAddsNoFan /\ MCRFanPaidOnce
=============================================================================
